---- MODULE Spec2Model ----
(***************************************************************************)
(* Model of the agent_kg knowledge-graph repository: the PostgresDB        *)
(* executor of src/agent_kg/server.py (connection handling, read-only      *)
(* guard, commit / rollback discipline), the repository methods layered    *)
(* on it, and the connect procedure of kg/db.py.                           *)
(*                                                                         *)
(* SQL text is a sequence of one-character strings, so that the textual    *)
(* classifier is_read_only_query is computed character by character.       *)
(***************************************************************************)
EXTENDS Integers, Sequences, FiniteSets, TLC

VARIABLES
    connection,   \* self.connection: "None" or "conn"
    closed,       \* connection.closed of psycopg2: 0 open, 1 closed, 2 broken
    txn,          \* backend transaction status of the session
    working,      \* the tables as the open session sees them
    committed,    \* the tables as committed in the backend
    seqs,         \* the backend's id sequences, one per table
    last,         \* what the last call did and returned
    acked,        \* rows returned by successful add_* calls
    failStreak,   \* number of consecutive failed calls so far
    query,        \* classifier run: the statement text
    enforce,      \* classifier run: enforce_read_only of the call
    verdict,      \* classifier run: the result of the classifier and the guard
    script,       \* connect run: outcome of each psycopg2.connect call
    variant,      \* connect run: which module's _init_database runs
    connRun,      \* connect run: the result of the run
    tables,       \* graph: the rows of entities, relationships, properties
    nextId,       \* graph: the id sequence of each table
    clock,        \* graph: the backend's clock
    on_delete,    \* graph: the rule of the schema's foreign keys
    call,         \* graph: the last repository or tool call and its result
    before,       \* graph: the rows as the last call found them
    loop,         \* event loop: the tasks gathered and the executor calls made
    connection_config  \* connect run: the configuration given to __init__

vars == <<connection, closed, txn, working, committed, seqs, last, acked,
          failStreak, query, enforce, verdict, script, variant, connRun,
          tables, nextId, clock, on_delete, call, before, loop,
          connection_config>>

execVars == <<connection, closed, txn, working, committed, seqs, last, acked,
              failStreak>>
classVars == <<query, enforce, verdict>>
connVars == <<script, variant, connRun, connection_config>>
graphVars == <<tables, nextId, clock, on_delete, call, before>>

-----------------------------------------------------------------------------
(* Bounds of the model.                                                    *)

MaxPieces == 3
MaxScript == 4
MaxRows == 3
MaxStreak == 2
MaxEntities == 2
MaxRelationships == 1
MaxProperties == 2
MaxClock == 4

-----------------------------------------------------------------------------
(* Python str operations on character sequences.                           *)

LowerCase == <<"a","b","c","d","e","f","g","h","i","j","k","l","m",
               "n","o","p","q","r","s","t","u","v","w","x","y","z">>
UpperCase == <<"A","B","C","D","E","F","G","H","I","J","K","L","M",
               "N","O","P","Q","R","S","T","U","V","W","X","Y","Z">>

Whitespace == {" ", "\n", "\t"}

UpperChar(c) ==
    IF \E i \in 1..26 : LowerCase[i] = c
    THEN UpperCase[CHOOSE i \in 1..26 : LowerCase[i] = c]
    ELSE c

\* str.upper()
Upper(s) == [i \in 1..Len(s) |-> UpperChar(s[i])]

\* str.strip(): the text from its first to its last non-blank character
Strip(s) ==
    LET ink == {i \in 1..Len(s) : s[i] \notin Whitespace}
    IN  IF ink = {} THEN <<>>
        ELSE SubSeq(s, CHOOSE i \in ink : \A j \in ink : i <= j,
                       CHOOSE i \in ink : \A j \in ink : i >= j)

\* str.lstrip()
LStrip(s) ==
    LET ink == {i \in 1..Len(s) : s[i] \notin Whitespace}
    IN  IF ink = {} THEN <<>>
        ELSE SubSeq(s, CHOOSE i \in ink : \A j \in ink : i <= j, Len(s))

\* str.startswith(p)
StartsWith(s, p) == Len(s) >= Len(p) /\ SubSeq(s, 1, Len(p)) = p

\* p in s
Contains(s, p) ==
    \E i \in 1..(Len(s) - Len(p) + 1) : SubSeq(s, i, i + Len(p) - 1) = p

\* s.split('\n'): the list of lines, at least one
RECURSIVE SplitLines(_)
SplitLines(s) ==
    LET nl == {i \in 1..Len(s) : s[i] = "\n"}
    IN  IF nl = {} THEN <<s>>
        ELSE LET first == CHOOSE i \in nl : \A j \in nl : i <= j
             IN  <<SubSeq(s, 1, first - 1)>>
                     \o SplitLines(SubSeq(s, first + 1, Len(s)))

\* ' '.join(lines)
RECURSIVE Join(_)
Join(lines) ==
    IF lines = <<>> THEN <<>>
    ELSE IF Len(lines) = 1 THEN lines[1]
    ELSE lines[1] \o <<" ">> \o Join(Tail(lines))

-----------------------------------------------------------------------------
(* SQL words.                                                              *)

kwSELECT == <<"S","E","L","E","C","T">>
kwINSERT == <<"I","N","S","E","R","T">>
kwUPDATE == <<"U","P","D","A","T","E">>
kwDELETE == <<"D","E","L","E","T","E">>
kwDROP == <<"D","R","O","P">>
kwCREATE == <<"C","R","E","A","T","E">>
kwALTER == <<"A","L","T","E","R">>
kwTRUNCATE == <<"T","R","U","N","C","A","T","E">>
dashes == <<"-","-">>

\* write_operations of is_read_only_query
write_operations ==
    {kwINSERT, kwUPDATE, kwDELETE, kwDROP, kwCREATE, kwALTER, kwTRUNCATE}

-----------------------------------------------------------------------------
(* PostgresDB.is_read_only_query                                           *)

IsCommentLine(line) == StartsWith(Strip(line), dashes)

\* A plausible slip: the comment lines are kept.
CleanQueryKeepComments(q) == Upper(Strip(Join(SplitLines(q))))

\* clean_query of is_read_only_query
CleanQuery(q) ==
    Upper(Strip(Join(SelectSeq(SplitLines(q), LAMBDA l : ~IsCommentLine(l)))))

\* A plausible slip: the keywords are matched as whole words only.
ContainsWriteOperationAsWord(clean) ==
    \E op \in write_operations :
        \E i \in 1..Len(clean) :
            /\ StartsWith(SubSeq(clean, i, Len(clean)), op)
            /\ (i = 1 \/ clean[i - 1] = " ")
            /\ (i + Len(op) > Len(clean) \/ clean[i + Len(op)] = " ")

\* any(op in clean_query for op in write_operations)
ContainsWriteOperation(clean) == \E op \in write_operations : Contains(clean, op)

is_read_only_query(q) ==
    LET clean_query == CleanQuery(q)
    IN  StartsWith(clean_query, kwSELECT) /\ ~ContainsWriteOperation(clean_query)

\* A plausible slip: the read-only guard is left out.
ValidateIgnoresEnforce(q, enforce_read_only) ==
    IF q = <<>> \/ Strip(q) = <<>> THEN "Query cannot be empty" ELSE "pass"

\* A plausible slip: only the empty string is refused, not whitespace.
ValidateAcceptsBlank(q, enforce_read_only) ==
    IF q = <<>> THEN "Query cannot be empty"
    ELSE IF enforce_read_only /\ ~is_read_only_query(q)
         THEN "Only SELECT queries are allowed"
         ELSE "pass"

\* execute_query, lines 135-139: the checks made before the connection is used
Validate(q, enforce_read_only) ==
    IF q = <<>> \/ Strip(q) = <<>> THEN "Query cannot be empty"
    ELSE IF enforce_read_only /\ ~is_read_only_query(q)
         THEN "Only SELECT queries are allowed"
         ELSE "pass"

-----------------------------------------------------------------------------
(* The statements of the model: the text of each, as the repository        *)
(* methods and the tests give it to execute_query. Values are passed as    *)
(* parameters.                                                             *)

\* add_entity, lines 206-210
sqlAddEntity ==
    <<"\n"," "," "," "," "," "," "," "," "," "," "," "," ","I","N","S","E",
      "R","T"," ","I","N","T","O"," ","e","n","t","i","t","i","e","s"," ",
      "(","t","y","p","e",","," ","n","a","m","e",")","\n"," "," "," "," ",
      " "," "," "," "," "," "," "," ","V","A","L","U","E","S"," ","(","%",
      "s",","," ","%","s",")","\n"," "," "," "," "," "," "," "," "," "," ",
      " "," ","R","E","T","U","R","N","I","N","G"," ","i","d",","," ","t",
      "y","p","e",","," ","n","a","m","e",","," ","c","r","e","a","t","e",
      "d","_","a","t",","," ","l","a","s","t","_","u","p","d","a","t","e",
      "d","\n"," "," "," "," "," "," "," "," ">>

\* get_entity by id, lines 237-241
sqlGetEntity ==
    <<"\n"," "," "," "," "," "," "," "," "," "," "," "," "," "," "," "," ",
      "S","E","L","E","C","T"," ","i","d",","," ","t","y","p","e",","," ",
      "n","a","m","e",","," ","c","r","e","a","t","e","d","_","a","t",",",
      " ","l","a","s","t","_","u","p","d","a","t","e","d","\n"," "," "," ",
      " "," "," "," "," "," "," "," "," "," "," "," "," ","F","R","O","M",
      " ","e","n","t","i","t","i","e","s","\n"," "," "," "," "," "," "," ",
      " "," "," "," "," "," "," "," "," ","W","H","E","R","E"," ","i","d",
      " ","="," ","%","s","\n"," "," "," "," "," "," "," "," "," "," "," ",
      " ">>

\* add_property, lines 360-364
sqlAddProperty ==
    <<"\n"," "," "," "," "," "," "," "," "," "," "," "," ","I","N","S","E",
      "R","T"," ","I","N","T","O"," ","p","r","o","p","e","r","t","i","e",
      "s"," ","(","e","n","t","i","t","y","_","i","d",","," ","r","e","l",
      "a","t","i","o","n","s","h","i","p","_","i","d",","," ","k","e","y",
      ","," ","v","a","l","u","e",","," ","v","a","l","u","e","_","t","y",
      "p","e",")","\n"," "," "," "," "," "," "," "," "," "," "," "," ","V",
      "A","L","U","E","S"," ","(","%","s",","," ","%","s",","," ","%","s",
      ","," ","%","s",","," ","%","s",")","\n"," "," "," "," "," "," "," ",
      " "," "," "," "," ","R","E","T","U","R","N","I","N","G"," ","i","d",
      ","," ","e","n","t","i","t","y","_","i","d",","," ","r","e","l","a",
      "t","i","o","n","s","h","i","p","_","i","d",","," ","k","e","y",",",
      " ","v","a","l","u","e",","," ","v","a","l","u","e","_","t","y","p",
      "e",","," ","c","r","e","a","t","e","d","_","a","t",","," ","l","a",
      "s","t","_","u","p","d","a","t","e","d","\n"," "," "," "," "," "," ",
      " "," ">>

\* add_relationship, lines 504-508
sqlAddRelationship ==
    <<"\n"," "," "," "," "," "," "," "," "," "," "," "," ","I","N","S","E",
      "R","T"," ","I","N","T","O"," ","r","e","l","a","t","i","o","n","s",
      "h","i","p","s"," ","(","s","o","u","r","c","e","_","i","d",","," ",
      "t","a","r","g","e","t","_","i","d",","," ","t","y","p","e",")","\n",
      " "," "," "," "," "," "," "," "," "," "," "," ","V","A","L","U","E",
      "S"," ","(","%","s",","," ","%","s",","," ","%","s",")","\n"," "," ",
      " "," "," "," "," "," "," "," "," "," ","R","E","T","U","R","N","I",
      "N","G"," ","i","d",","," ","s","o","u","r","c","e","_","i","d",",",
      " ","t","a","r","g","e","t","_","i","d",","," ","t","y","p","e",",",
      " ","c","r","e","a","t","e","d","_","a","t",","," ","l","a","s","t",
      "_","u","p","d","a","t","e","d","\n"," "," "," "," "," "," "," "," ">>

\* tests/test_postgres.py line 239
sqlSelectOne ==
    <<"S","E","L","E","C","T"," ","1"," ","a","s"," ","n","u","m">>

\* tests/test_postgres.py line 642
sqlInvalid ==
    <<"I","N","V","A","L","I","D"," ","S","Q","L">>

\* tests/test_postgres.py line 219
sqlEmpty ==
    <<>>

\* a whitespace-only statement
sqlBlank ==
    <<" "," ","\n">>

\* tests/test_postgres.py line 231
sqlTooManyParams ==
    <<"S","E","L","E","C","T"," ","%","s">>

\* tests/test_postgres.py line 660
sqlInsertRaw ==
    <<"I","N","S","E","R","T"," ","I","N","T","O"," ","e","n","t","i","t",
      "i","e","s"," ","(","t","y","p","e",","," ","n","a","m","e",")"," ",
      "V","A","L","U","E","S"," ","(","%","s",","," ","%","s",")">>

\* server.py line 327
sqlDeleteRaw ==
    <<"D","E","L","E","T","E"," ","F","R","O","M"," ","e","n","t","i","t",
      "i","e","s"," ","W","H","E","R","E"," ","i","d"," ","="," ","%","s">>

\* a read of the last_updated column
sqlSelectUpdated ==
    <<"S","E","L","E","C","T"," ","i","d",","," ","l","a","s","t","_","u",
      "p","d","a","t","e","d"," ","F","R","O","M"," ","e","n","t","i","t",
      "i","e","s">>

\* a SELECT that writes: it creates the table snapshot
sqlSelectInto ==
    <<"S","E","L","E","C","T"," ","i","d"," ","I","N","T","O"," ","s","n",
      "a","p","s","h","o","t"," ","F","R","O","M"," ","e","n","t","i","t",
      "i","e","s">>

SqlText ==
    [ADD_ENTITY |-> sqlAddEntity, GET_ENTITY |-> sqlGetEntity,
     ADD_PROPERTY |-> sqlAddProperty, ADD_RELATIONSHIP |-> sqlAddRelationship,
     SELECT_ONE |-> sqlSelectOne, INVALID |-> sqlInvalid, EMPTY |-> sqlEmpty,
     BLANK |-> sqlBlank, TOO_MANY_PARAMS |-> sqlTooManyParams,
     INSERT_RAW |-> sqlInsertRaw, DELETE_RAW |-> sqlDeleteRaw,
     SELECT_UPDATED |-> sqlSelectUpdated, SELECT_INTO |-> sqlSelectInto]

StatementKinds == DOMAIN SqlText

\* The classifier and the guard on the statements of the model.
ReadOnlyOf == [k \in StatementKinds |-> is_read_only_query(SqlText[k])]

ValidateOf ==
    [k \in StatementKinds |-> [e \in BOOLEAN |-> Validate(SqlText[k], e)]]

-----------------------------------------------------------------------------
(* Statement texts given to the classifier: every concatenation of at most *)
(* MaxPieces of these pieces.                                              *)

Pieces ==
    { kwSELECT \o <<" ">>,
      <<"s","e","l","e","c","t"," ">>,
      <<" ">>, <<"\n">>, dashes, <<"x">>,
      <<" ","-","-","c","\n">>,
      <<"l","a","s","t","_">>,
      <<"u","p","d","a","t","e">>,
      kwINSERT, kwUPDATE, kwDELETE, kwDROP, kwCREATE, kwALTER, kwTRUNCATE }

RECURSIVE Flatten(_)
Flatten(ps) == IF ps = <<>> THEN <<>> ELSE Head(ps) \o Flatten(Tail(ps))

Queries == { Flatten(ps) : ps \in UNION { [1..n -> Pieces] : n \in 0..MaxPieces } }

-----------------------------------------------------------------------------
(* The state in which a part of the model rests while another part runs.   *)

EmptyTables ==
    [entities |-> {}, relationships |-> {}, properties |-> {},
     snapshot |-> FALSE]

NoCall ==
    [op |-> "none", stmt |-> "none", enforce |-> FALSE, fault |-> "none",
     result |-> "none", message |-> "", returned |-> "none", rows |-> {},
     wasClosed |-> FALSE, connected |-> FALSE, attempts |-> 0, sent |-> 0,
     commits |-> 0, rollbacks |-> 0, inserted |-> 0, prevInserted |-> 0,
     streakBefore |-> 0, raised |-> "none"]

ExecAtRest ==
    /\ connection = "conn"
    /\ closed = 0
    /\ txn = "IDLE"
    /\ working = EmptyTables
    /\ committed = EmptyTables
    /\ seqs = [entities |-> 1, relationships |-> 1, properties |-> 1]
    /\ last = NoCall
    /\ acked = EmptyTables
    /\ failStreak = 0

NoVerdict == [done |-> FALSE, read_only |-> FALSE, raised |-> ""]

NoRun == [done |-> FALSE, raised |-> "", attempts |-> 0, connected |-> FALSE]

ClassifierAtRest == query = <<>> /\ enforce = FALSE /\ verdict = NoVerdict

\* what a configuration holds under a key: nothing, '' or a value
Absent == "absent"
Present == "present"

\* test_db_config: every parameter is given
TestConfig ==
    [dbname |-> Present, user |-> Present, password |-> Present,
     host |-> Present, port |-> Present]

ConnectAtRest ==
    /\ script = <<>>
    /\ variant = "server"
    /\ connRun = NoRun
    /\ connection_config = TestConfig

NoTables == [entities |-> {}, relationships |-> {}, properties |-> {}]

\* no task has been gathered
NoLoop == [tasks |-> <<>>, running |-> 0, trace |-> <<>>]

NoGraphCall ==
    [op |-> "none", result |-> "none", message |-> "", rows |-> {},
     value |-> "",
     flag |-> FALSE, id |-> 0, type |-> "", name |-> "", key |-> "",
     entity_id |-> 0, relationship_id |-> 0, source_id |-> 0,
     target_id |-> 0, properties |-> <<>>, include_incoming |-> TRUE,
     include_outgoing |-> TRUE, category |-> "", keys |-> <<>>]

GraphAtRest ==
    /\ tables = NoTables
    /\ nextId = [entities |-> 1, relationships |-> 1, properties |-> 1]
    /\ clock = 1
    /\ on_delete = "restrict"
    /\ call = NoGraphCall
    /\ before = NoTables
    /\ loop = NoLoop

-----------------------------------------------------------------------------
(* The classifier and the guard of execute_query, run on every text.       *)

InitClassify ==
    /\ query \in Queries
    /\ enforce \in BOOLEAN
    /\ verdict = NoVerdict
    /\ ExecAtRest
    /\ GraphAtRest
    /\ ConnectAtRest

Classify ==
    /\ ~verdict.done
    /\ verdict' = [done |-> TRUE, read_only |-> is_read_only_query(query),
                   raised |-> Validate(query, enforce)]
    /\ UNCHANGED <<query, enforce, execVars, connVars, graphVars, loop>>

NextClassify == Classify

SpecClassify == InitClassify /\ [][NextClassify]_vars

-----------------------------------------------------------------------------
(* Text properties stated on positions of the raw text, used to state the  *)
(* claims about the classifier.                                            *)

Min(S) == CHOOSE x \in S : \A y \in S : x <= y

\* p occurs in s at position i, letter case ignored
OccursAt(s, p, i) ==
    /\ i >= 1
    /\ i + Len(p) - 1 <= Len(s)
    /\ \A k \in 1..Len(p) : UpperChar(s[i + k - 1]) = p[k]

Occurs(s, p) == \E i \in 1..Len(s) : OccursAt(s, p, i)

IdentChars ==
    {LowerCase[i] : i \in 1..26} \cup {UpperCase[i] : i \in 1..26}
        \cup {"_", "0", "1", "2", "3", "4", "5", "6", "7", "8", "9"}

\* p occurs in s as a whole word: no identifier character on either side
OccursAsToken(s, p) ==
    \E i \in 1..Len(s) :
        /\ OccursAt(s, p, i)
        /\ (i = 1 \/ s[i - 1] \notin IdentChars)
        /\ (i + Len(p) > Len(s) \/ s[i + Len(p)] \notin IdentChars)

\* the positions at which a line of q starts, and the line that starts there
LineStarts(q) == {1} \cup {i + 1 : i \in {j \in 1..Len(q) : q[j] = "\n"}}

LineAt(q, s) ==
    LET ends == {j \in s..Len(q) : q[j] = "\n"}
    IN  SubSeq(q, s, IF ends = {} THEN Len(q) ELSE Min(ends) - 1)

Ink(line) == {i \in 1..Len(line) : line[i] \notin Whitespace}

\* the first characters of the line that are not blank are "--"
CommentLine(line) == Ink(line) # {} /\ OccursAt(line, dashes, Min(Ink(line)))

KeptLines(q) == {LineAt(q, s) : s \in {t \in LineStarts(q) : ~CommentLine(LineAt(q, t))}}

\* the first line that is neither a comment nor blank begins with SELECT
BeginsWithSelect(q) ==
    LET inked == {s \in LineStarts(q) :
                      ~CommentLine(LineAt(q, s)) /\ Ink(LineAt(q, s)) # {}}
    IN  /\ inked # {}
        /\ LET line == LineAt(q, Min(inked))
           IN  OccursAt(line, kwSELECT, Min(Ink(line)))

\* a write keyword occurs somewhere in a line that is not a comment
WriteKeywordAnywhere(q) ==
    \E line \in KeptLines(q) : \E op \in write_operations : Occurs(line, op)

\* a write keyword occurs as a whole word in a line that is not a comment
WriteKeywordAsToken(q) ==
    \E line \in KeptLines(q) : \E op \in write_operations : OccursAsToken(line, op)

\* the statement text itself starts with SELECT (leading blanks ignored)
SelectStatement(q) == StartsWith(Upper(LStrip(q)), kwSELECT)

Rejected == verdict.done /\ verdict.raised = "Only SELECT queries are allowed"

\* C8 as claimed: under read-only enforcement a statement that starts with
\* SELECT is rejected only when a banned keyword occurs in it as a whole word.
C8_RejectedOnlyOnBareToken ==
    (verdict.done /\ enforce /\ SelectStatement(query) /\ Rejected)
        => WriteKeywordAsToken(query)

\* C8 amended: under read-only enforcement a statement that starts with SELECT
\* is rejected exactly when a banned keyword occurs anywhere in one of its
\* non-comment lines, as a whole word or inside a longer identifier.
C8_RejectedOnAnyOccurrence ==
    (verdict.done /\ enforce /\ SelectStatement(query))
        => (Rejected <=> WriteKeywordAnywhere(query))

\* C8 witness: a SELECT rejected although its only banned keyword is part of
\* a longer identifier.
C8_Witness ==
    /\ verdict.done /\ enforce /\ SelectStatement(query) /\ Rejected
    /\ ~WriteKeywordAsToken(query)
    /\ WriteKeywordAnywhere(query)

\* C9: is_read_only_query(q) is true exactly when, comment lines removed and
\* case ignored, the text begins with SELECT and no write keyword occurs
\* anywhere in it.
C9_ReadOnlyIffSelectWithoutWriteKeyword ==
    verdict.done
        => (verdict.read_only
                <=> (BeginsWithSelect(query) /\ ~WriteKeywordAnywhere(query)))

\* C9 witness: a comment line followed by a SELECT was classified read-only.
C9_Witness ==
    /\ verdict.done /\ verdict.read_only
    /\ \E s \in LineStarts(query) : CommentLine(LineAt(query, s))
    /\ BeginsWithSelect(query)

-----------------------------------------------------------------------------
(* PostgresDB._init_database: the bounded connect procedure, in the two    *)
(* modules that define it. outs[i] is what the i-th psycopg2.connect call  *)
(* does: it returns a connection ("ok"), raises OperationalError, or       *)
(* raises another exception.                                               *)

max_retries == 3

ConnectOutcomes == {"ok", "OperationalError", "Exception"}

\* A plausible slip: the last attempt is given up one iteration early.
RECURSIVE InitDatabaseEarlyFrom(_, _, _)
InitDatabaseEarlyFrom(v, outs, attempt) ==
    IF attempt >= max_retries
    THEN [done |-> TRUE, raised |-> "", attempts |-> attempt, connected |-> FALSE]
    ELSE IF outs[attempt + 1] = "ok"
    THEN [done |-> TRUE, raised |-> "", attempts |-> attempt + 1, connected |-> TRUE]
    ELSE IF attempt >= max_retries - 2
    THEN [done |-> TRUE, raised |-> "ConnectionError", attempts |-> attempt + 1,
          connected |-> FALSE]
    ELSE InitDatabaseEarlyFrom(v, outs, attempt + 1)

InitDatabaseEarly(v, outs) == InitDatabaseEarlyFrom(v, outs, 0)

\* for attempt in range(max_retries): ...
RECURSIVE InitDatabaseFrom(_, _, _)
InitDatabaseFrom(v, outs, attempt) ==
    IF attempt >= max_retries
    THEN [done |-> TRUE, raised |-> "", attempts |-> attempt, connected |-> FALSE]
    ELSE IF outs[attempt + 1] = "ok"
    THEN [done |-> TRUE, raised |-> "", attempts |-> attempt + 1, connected |-> TRUE]
    ELSE IF v \in {"server", "postgres"} /\ outs[attempt + 1] # "OperationalError"
    THEN \* server.py and postgres.py: except Exception raises at once
         [done |-> TRUE, raised |-> "ConnectionError", attempts |-> attempt + 1,
          connected |-> FALSE]
    ELSE IF attempt = max_retries - 1
    THEN [done |-> TRUE, raised |-> "ConnectionError", attempts |-> attempt + 1,
          connected |-> FALSE]
    ELSE InitDatabaseFrom(v, outs, attempt + 1)

InitDatabase(v, outs) == InitDatabaseFrom(v, outs, 0)

Scripts == [1..MaxScript -> ConnectOutcomes]

InitConnect ==
    /\ script \in Scripts
    /\ variant \in {"server", "kg"}
    /\ connRun = NoRun
    /\ connection_config = TestConfig
    /\ ExecAtRest
    /\ GraphAtRest
    /\ ClassifierAtRest

RunInitDatabase ==
    /\ ~connRun.done
    /\ connRun' = InitDatabase(variant, script)
    /\ UNCHANGED <<script, variant, connection_config, execVars, classVars,
                   graphVars, loop>>

NextConnect == RunInitDatabase

SpecConnect == InitConnect /\ [][NextConnect]_vars

\* C6: a run of the connect procedure makes between 1 and 3 attempts and ends
\* connected or with ConnectionError; it stops at the first attempt that
\* succeeds (a connection failure followed by a success is 2 attempts); after
\* 3 failed attempts it has raised ConnectionError.
C6_BoundedConnect ==
    connRun.done =>
        /\ connRun.attempts \in 1..3
        /\ connRun.raised \in {"", "ConnectionError"}
        /\ connRun.connected <=> connRun.raised = ""
        /\ connRun.connected =>
              /\ script[connRun.attempts] = "ok"
              /\ \A i \in 1..(connRun.attempts - 1) : script[i] # "ok"
        /\ (script[1] = "OperationalError" /\ script[2] = "ok")
              => (connRun.connected /\ connRun.attempts = 2)
        /\ (\A i \in 1..3 : script[i] # "ok") => connRun.raised = "ConnectionError"
        /\ (\A i \in 1..3 : script[i] = "OperationalError")
              => (connRun.attempts = 3 /\ ~connRun.connected)

\* C6 witness: three failed attempts, then ConnectionError.
C6_Witness ==
    /\ connRun.done /\ connRun.attempts = 3 /\ connRun.raised = "ConnectionError"
    /\ \A i \in 1..3 : script[i] = "OperationalError"

-----------------------------------------------------------------------------
(* The backend session behind the psycopg2 connection.                     *)
(* st is the record of connection, closed, txn, working, committed, seqs.  *)

Null == 0

Types == {"person"}
Names == {"Alice"}
RelTypes == {"knows"}
Keys == {"age"}
Values == {"30"}

Here ==
    [connection |-> connection, closed |-> closed, txn |-> txn,
     working |-> working, committed |-> committed, seqs |-> seqs]

\* connection.commit()
Commit(st) == [st EXCEPT !.committed = st.working, !.txn = "IDLE"]

\* connection.rollback()
Rollback(st) == [st EXCEPT !.working = st.committed, !.txn = "IDLE"]

\* a new session after psycopg2.connect: it sees the committed tables
Connected(st) ==
    [st EXCEPT !.connection = "conn", !.closed = 0, !.txn = "IDLE",
               !.working = st.committed]

\* connection.close(), or the loss of the session: uncommitted work is gone
Disconnected(st, how) ==
    [st EXCEPT !.closed = how, !.txn = "IDLE", !.working = st.committed]

Stmt(kind) ==
    [kind |-> kind, id |-> Null, type |-> "", name |-> "", source_id |-> Null,
     target_id |-> Null, entity_id |-> Null, relationship_id |-> Null,
     key |-> "", value |-> ""]

\* The foreign keys of the schema: a relationship names two entities, a
\* property names its entity or its relationship, and a row that is named
\* by another cannot be deleted.
ForeignKeysHold(w) ==
    /\ \A r \in w.relationships :
          /\ \E e \in w.entities : e.id = r.source_id
          /\ \E e \in w.entities : e.id = r.target_id
    /\ \A p \in w.properties :
          /\ p.entity_id # Null => \E e \in w.entities : e.id = p.entity_id
          /\ p.relationship_id # Null =>
                \E r \in w.relationships : r.id = p.relationship_id

\* What the backend does with a statement it can parse: the tables after
\* it, the rows it returns and whether the cursor has a description.
Apply(st, stmt) ==
    LET w == st.working
        k == stmt.kind
        eid == st.seqs.entities
        erow == [id |-> eid, type |-> stmt.type, name |-> stmt.name]
        rid == st.seqs.relationships
        rrow == [id |-> rid, source_id |-> stmt.source_id,
                 target_id |-> stmt.target_id, type |-> stmt.type]
        pid == st.seqs.properties
        prow == [id |-> pid, entity_id |-> stmt.entity_id,
                 relationship_id |-> stmt.relationship_id,
                 key |-> stmt.key, value |-> stmt.value]
        read(rows) ==
            [working |-> w, seqs |-> st.seqs, rows |-> rows,
             description |-> TRUE, inserted |-> 0]
    IN  CASE k = "SELECT_ONE" -> read({[num |-> 1]})
          [] k = "GET_ENTITY" -> read({e \in w.entities : e.id = stmt.id})
          [] k = "SELECT_UPDATED" -> read(w.entities)
          [] k \in {"ADD_ENTITY", "INSERT_RAW"} ->
               [working |-> [w EXCEPT !.entities = @ \cup {erow}],
                seqs |-> [st.seqs EXCEPT !.entities = eid + 1],
                rows |-> IF k = "ADD_ENTITY" THEN {erow} ELSE {},
                description |-> (k = "ADD_ENTITY"), inserted |-> eid]
          [] k = "DELETE_RAW" ->
               [working |-> [w EXCEPT !.entities = {e \in @ : e.id # stmt.id}],
                seqs |-> st.seqs, rows |-> {}, description |-> FALSE,
                inserted |-> 0]
          [] k = "SELECT_INTO" ->
               [working |-> [w EXCEPT !.snapshot = TRUE], seqs |-> st.seqs,
                rows |-> {}, description |-> FALSE, inserted |-> 0]
          [] k = "ADD_RELATIONSHIP" ->
               [working |-> [w EXCEPT !.relationships = @ \cup {rrow}],
                seqs |-> [st.seqs EXCEPT !.relationships = rid + 1],
                rows |-> {rrow}, description |-> TRUE, inserted |-> rid]
          [] k = "ADD_PROPERTY" ->
               [working |-> [w EXCEPT !.properties = @ \cup {prow}],
                seqs |-> [st.seqs EXCEPT !.properties = pid + 1],
                rows |-> {prow}, description |-> TRUE, inserted |-> pid]

Faults == {"none", "lost"}

\* A plausible slip: the statement is executed again after it was sent, as a
\* retry inside the call would do.
CursorExecuteRetried(st, stmt, fault) ==
    LET fail(st2, exc, sent) ==
            [st |-> st2, exc |-> exc, sent |-> sent, rows |-> {},
             description |-> FALSE, inserted |-> 0]
    IN  IF st.connection = "None" \/ st.closed # 0
        THEN fail(st, "InterfaceError", 0)
        ELSE IF stmt.kind = "TOO_MANY_PARAMS"
        THEN fail(st, "TypeError", 0)
        ELSE IF fault = "lost"
        THEN fail(Disconnected(st, 2), "OperationalError", 2)
        ELSE IF st.txn = "INERROR"
        THEN fail(st, "InFailedSqlTransaction", 2)
        ELSE IF stmt.kind = "INVALID"
        THEN fail([st EXCEPT !.txn = "INERROR"], "ProgrammingError", 2)
        ELSE IF stmt.kind \in {"EMPTY", "BLANK"}
        THEN fail([st EXCEPT !.txn = "INTRANS"], "ProgrammingError", 2)
        ELSE IF stmt.kind = "SELECT_INTO"
        THEN fail([st EXCEPT !.txn = "INERROR"], "ProgrammingError", 2)
        ELSE LET a == Apply(st, stmt)
                 b == Apply([st EXCEPT !.working = a.working,
                                       !.seqs = a.seqs], stmt)
             IN  IF ~ForeignKeysHold(b.working)
                 THEN fail([st EXCEPT !.txn = "INERROR"], "IntegrityError", 2)
                 ELSE [st |-> [st EXCEPT !.txn = "INTRANS",
                                         !.working = b.working,
                                         !.seqs = b.seqs],
                       exc |-> "", sent |-> 2, rows |-> b.rows,
                       description |-> b.description, inserted |-> b.inserted]

\* with self.connection.cursor() as cursor: cursor.execute(query, params)
\* exc is the exception raised, "" when the statement ran.
CursorExecute(st, stmt, fault) ==
    LET fail(st2, exc, sent) ==
            [st |-> st2, exc |-> exc, sent |-> sent, rows |-> {},
             description |-> FALSE, inserted |-> 0]
    IN  IF st.connection = "None" \/ st.closed # 0
        THEN fail(st, "InterfaceError", 0)
        ELSE IF stmt.kind = "TOO_MANY_PARAMS"
        THEN fail(st, "TypeError", 0)
        ELSE IF fault = "lost"
        THEN fail(Disconnected(st, 2), "OperationalError", 1)
        ELSE IF st.txn = "INERROR"
        THEN fail(st, "InFailedSqlTransaction", 1)
        ELSE IF stmt.kind = "INVALID"
        THEN fail([st EXCEPT !.txn = "INERROR"], "ProgrammingError", 1)
        ELSE IF stmt.kind \in {"EMPTY", "BLANK"}
        THEN fail([st EXCEPT !.txn = "INTRANS"], "ProgrammingError", 1)
        ELSE IF stmt.kind = "SELECT_INTO" /\ st.working.snapshot
        THEN fail([st EXCEPT !.txn = "INERROR"], "ProgrammingError", 1)
        ELSE LET a == Apply(st, stmt)
             IN  IF ~ForeignKeysHold(a.working)
                 THEN fail([st EXCEPT !.txn = "INERROR"], "IntegrityError", 1)
                 ELSE [st |-> [st EXCEPT !.txn = "INTRANS",
                                         !.working = a.working,
                                         !.seqs = a.seqs],
                       exc |-> "", sent |-> 1, rows |-> a.rows,
                       description |-> a.description, inserted |-> a.inserted]

-----------------------------------------------------------------------------
(* PostgresDB.execute_query of server.py                                   *)

\* A plausible slip: the liveness check is left out.
EnsureConnectionSkip(st, outs) ==
    [st |-> st, raised |-> "", attempts |-> 0, connected |-> FALSE]

\* lines 144-147: reconnect when the handle is None or closed
EnsureConnection(st, outs) ==
    IF st.connection = "None" \/ st.closed # 0
    THEN LET run == InitDatabase("server", outs)
         IN  [st |-> IF run.connected THEN Connected(st) ELSE st,
              raised |-> run.raised, attempts |-> run.attempts,
              connected |-> run.connected]
    ELSE [st |-> st, raised |-> "", attempts |-> 0, connected |-> FALSE]

\* A plausible slip: a RETURNING statement is not committed.
FinishNoCommitReturning(st, description, is_read_only) ==
    IF ~description /\ ~is_read_only
    THEN [st |-> Commit(st), commits |-> 1]
    ELSE [st |-> st, commits |-> 0]

\* A plausible slip: a statement without rows is not committed.
FinishNoCommitWrite(st, description, is_read_only) ==
    IF description /\ ~is_read_only
    THEN [st |-> Commit(st), commits |-> 1]
    ELSE [st |-> st, commits |-> 0]

\* A plausible slip: nothing is committed.
FinishNeverCommits(st, description, is_read_only) ==
    [st |-> st, commits |-> 0]

\* lines 155-169: commit unless the statement was classified read-only
Finish(st, description, is_read_only) ==
    IF description
    THEN IF ~is_read_only THEN [st |-> Commit(st), commits |-> 1]
                          ELSE [st |-> st, commits |-> 0]
    ELSE IF ~is_read_only THEN [st |-> Commit(st), commits |-> 1]
                          ELSE [st |-> st, commits |-> 0]

\* A plausible slip: the failed transaction is not rolled back.
HandleErrorNoRollback(st, exc) ==
    [st |-> st, rollbacks |-> 0,
     result |-> IF exc \in {"ProgrammingError", "OperationalError"}
                THEN "ValueError" ELSE "RuntimeError",
     message |-> IF exc \in {"ProgrammingError", "OperationalError"}
                 THEN "Query error" ELSE "Unexpected database error"]

\* lines 171-189: roll back, then raise ValueError or RuntimeError.
\* Reading connection.status (line 181) raises nothing and changes nothing.
HandleError(st, exc) ==
    LET open == st.connection # "None" /\ st.closed = 0
    IN  [st |-> IF open THEN Rollback(st) ELSE st,
         rollbacks |-> IF open THEN 1 ELSE 0,
         result |-> IF exc \in {"ProgrammingError", "OperationalError"}
                    THEN "ValueError" ELSE "RuntimeError",
         message |-> IF exc \in {"ProgrammingError", "OperationalError"}
                     THEN "Query error" ELSE "Unexpected database error"]

\* The whole call. The result record holds the state after the call and what
\* the call did.
Exec(st, stmt, enforce_read_only, outs, fault) ==
    LET v == ValidateOf[stmt.kind][enforce_read_only]
        wasClosed == st.connection = "None" \/ st.closed # 0
        base == [st |-> st, result |-> "ValueError", message |-> v,
                 returned |-> "none", rows |-> {}, wasClosed |-> wasClosed,
                 connected |-> FALSE, attempts |-> 0, sent |-> 0,
                 commits |-> 0, rollbacks |-> 0, inserted |-> 0]
    IN  IF v # "pass" THEN base
        ELSE
          LET c == EnsureConnection(st, outs)
          IN  IF c.raised # ""
              THEN LET h == HandleError(c.st, c.raised)
                   IN  [base EXCEPT !.st = h.st, !.result = h.result,
                                    !.message = h.message,
                                    !.attempts = c.attempts,
                                    !.rollbacks = h.rollbacks]
              ELSE
                LET is_read_only == ReadOnlyOf[stmt.kind]
                    x == CursorExecute(c.st, stmt, fault)
                IN  IF x.exc # ""
                    THEN LET h == HandleError(x.st, x.exc)
                         IN  [base EXCEPT !.st = h.st, !.result = h.result,
                                          !.message = h.message,
                                          !.attempts = c.attempts,
                                          !.connected = c.connected,
                                          !.sent = x.sent,
                                          !.rollbacks = h.rollbacks]
                    ELSE LET f == Finish(x.st, x.description, is_read_only)
                         IN  [base EXCEPT !.st = f.st, !.result = "ok",
                                          !.message = "",
                                          !.returned = IF x.description
                                                       THEN "rows" ELSE "None",
                                          !.rows = x.rows,
                                          !.attempts = c.attempts,
                                          !.connected = c.connected,
                                          !.sent = x.sent,
                                          !.commits = f.commits,
                                          !.inserted = x.inserted]

-----------------------------------------------------------------------------
(* The calls made on one PostgresDB instance of server.py.                 *)

Install(st) ==
    /\ connection' = st.connection
    /\ closed' = st.closed
    /\ txn' = st.txn
    /\ working' = st.working
    /\ committed' = st.committed
    /\ seqs' = st.seqs

\* the id written by the call before this one, when that call was a
\* successful execute_query of the raw INSERT
PrevInserted ==
    IF last.op = "execute_query" /\ last.result = "ok" /\ last.stmt = "INSERT_RAW"
    THEN last.inserted ELSE 0

CallRecord(op, stmt, enforce_read_only, fault, r) ==
    [op |-> op, stmt |-> stmt.kind, enforce |-> enforce_read_only,
     fault |-> IF r.sent = 1 THEN fault ELSE "none", result |-> r.result, message |-> r.message,
     returned |-> r.returned, rows |-> r.rows, wasClosed |-> r.wasClosed,
     connected |-> r.connected, attempts |-> r.attempts, sent |-> r.sent,
     commits |-> r.commits, rollbacks |-> r.rollbacks,
     inserted |-> r.inserted, prevInserted |-> PrevInserted,
     streakBefore |-> failStreak, raised |-> "none"]

StreakAfter(r) ==
    IF r.result = "ok" THEN 0
    ELSE IF failStreak < MaxStreak THEN failStreak + 1 ELSE failStreak

AllOk == [i \in 1..max_retries |-> "ok"]

\* the outcomes of the connect attempts a call may meet
ScriptsFor(st) ==
    IF st.connection = "None" \/ st.closed # 0
    THEN {AllOk,
          [AllOk EXCEPT ![1] = "OperationalError"],
          [AllOk EXCEPT ![1] = "Exception"],
          [i \in 1..max_retries |-> "OperationalError"]}
    ELSE {AllOk}

\* the ids that the calls of the model name
Ids == {1, 2}

\* the faults a statement can meet: none before it is sent
FaultsFor(stmt, enforce_read_only, outs) ==
    IF ValidateOf[stmt.kind][enforce_read_only] = "pass"
           /\ stmt.kind # "TOO_MANY_PARAMS"
           /\ InitDatabase("server", outs).connected
    THEN Faults ELSE {"none"}

RawStatements ==
    {Stmt(k) : k \in {"SELECT_ONE", "INVALID", "EMPTY", "BLANK",
                      "TOO_MANY_PARAMS"}}
    \cup {[Stmt("INSERT_RAW") EXCEPT !.type = t, !.name = n] :
              t \in Types, n \in Names}
    \cup {[Stmt("DELETE_RAW") EXCEPT !.id = i] : i \in Ids}

\* the sequences of the model are bounded
WithinBounds(stmt) ==
    stmt.kind \in {"ADD_ENTITY", "INSERT_RAW", "ADD_RELATIONSHIP", "ADD_PROPERTY"}
        => (seqs.entities - 1) + (seqs.relationships - 1)
               + (seqs.properties - 1) < MaxRows

\* acknowledged rows that a later successful statement has not rewritten
AckedAfter(stmt, r) ==
    IF r.result = "ok" /\ stmt.kind = "DELETE_RAW"
    THEN [acked EXCEPT !.entities = {e \in acked.entities : e.id # stmt.id}]
    ELSE IF r.result = "ok" /\ stmt.kind = "SELECT_INTO"
    THEN [acked EXCEPT !.snapshot = TRUE]
    ELSE acked

\* db.execute_query(query, params)
ExecuteQuery ==
    /\ variant = "server"
    /\ \E stmt \in RawStatements, outs \in ScriptsFor(Here) :
         \E fault \in FaultsFor(stmt, FALSE, outs) :
           /\ WithinBounds(stmt)
           /\ \E r \in {Exec(Here, stmt, FALSE, outs, fault)} :
                  /\ Install(r.st)
                  /\ last' = CallRecord("execute_query", stmt, FALSE, fault, r)
                  /\ acked' = AckedAfter(stmt, r)
                  /\ failStreak' = StreakAfter(r)
           /\ UNCHANGED <<classVars, connVars, graphVars, loop>>

\* not s or not s.strip()
IsBlank(str) == str \in {"", " "}

Rejection(op, message) ==
    [NoCall EXCEPT !.op = op, !.result = "ValueError", !.message = message,
                   !.streakBefore = failStreak]

\* The repository methods wrap every failure of their body in RuntimeError.
Wrapped(r, message) ==
    IF r.result = "ok" THEN r
    ELSE [r EXCEPT !.result = "RuntimeError", !.message = message]

\* a repository method refuses its arguments before it calls execute_query
Refuse(op, message) ==
    /\ last' = Rejection(op, message)
    /\ UNCHANGED <<connection, closed, txn, working, committed, seqs, acked,
                   failStreak>>

\* try: self.execute_query(query, params) ... except Exception: RuntimeError;
\* table names the table whose new row the method returns, "" for none;
\* raised keeps the kind of error that execute_query raised inside the method
RepoCall(op, stmt, message, table) ==
    \E outs \in ScriptsFor(Here) :
      \E fault \in FaultsFor(stmt, FALSE, outs) :
        /\ WithinBounds(stmt)
        /\ \E r \in {Exec(Here, stmt, FALSE, outs, fault)} :
               /\ Install(r.st)
               /\ last' = [CallRecord(op, stmt, FALSE, fault,
                                       Wrapped(r, message))
                               EXCEPT !.raised = IF r.result = "ok" THEN "none"
                                                 ELSE r.result]
               /\ acked' = IF r.result = "ok" /\ table # ""
                           THEN [acked EXCEPT ![table] = @ \cup r.rows]
                           ELSE acked
               /\ failStreak' = StreakAfter(r)

\* PostgresDB.add_entity(type, name)
AddEntity ==
    /\ UNCHANGED <<classVars, connVars, graphVars, loop>>
    /\ \E t \in Types \cup {""}, n \in Names \cup {""} :
          IF IsBlank(t)
          THEN Refuse("add_entity", "Entity type cannot be empty")
          ELSE IF IsBlank(n)
          THEN Refuse("add_entity", "Entity name cannot be empty")
          ELSE RepoCall("add_entity",
                        [Stmt("ADD_ENTITY") EXCEPT !.type = t, !.name = n],
                        "Failed to add entity", "entities")

\* PostgresDB.get_entity(entity_id)
GetEntity ==
    /\ UNCHANGED <<classVars, connVars, graphVars, loop>>
    /\ \E i \in Ids :
          RepoCall("get_entity", [Stmt("GET_ENTITY") EXCEPT !.id = i],
                   "Failed to get entity", "")

\* PostgresDB.add_relationship(source_id, target_id, type)
AddRelationship ==
    /\ UNCHANGED <<classVars, connVars, graphVars, loop>>
    /\ \E src \in Ids, tgt \in Ids, t \in RelTypes \cup {""} :
          IF IsBlank(t)
          THEN Refuse("add_relationship", "Relationship type cannot be empty")
          ELSE RepoCall("add_relationship",
                        [Stmt("ADD_RELATIONSHIP") EXCEPT
                            !.source_id = src, !.target_id = tgt, !.type = t],
                        "Failed to add relationship", "relationships")

\* PostgresDB.add_property(key, value, value_type, entity_id, relationship_id)
AddProperty ==
    /\ UNCHANGED <<classVars, connVars, graphVars, loop>>
    /\ \E k \in Keys \cup {""}, val \in Values, eid \in {Null, 1},
          rid \in {Null, 1} :
          IF IsBlank(k)
          THEN Refuse("add_property", "Property key cannot be empty")
          ELSE IF eid = Null /\ rid = Null
          THEN Refuse("add_property",
                      "Must provide either entity_id or relationship_id")
          ELSE IF eid # Null /\ rid # Null
          THEN Refuse("add_property",
                      "Cannot provide both entity_id and relationship_id")
          ELSE RepoCall("add_property",
                        [Stmt("ADD_PROPERTY") EXCEPT
                            !.entity_id = eid, !.relationship_id = rid,
                            !.key = k, !.value = val],
                        "Failed to add property", "properties")

\* the statements given to the query tool; none of them contains LIKE
ToolStatements ==
    {Stmt(k) : k \in {"SELECT_ONE", "SELECT_UPDATED", "SELECT_INTO", "INVALID",
                      "EMPTY"}}
    \cup {[Stmt("INSERT_RAW") EXCEPT !.type = t, !.name = n] :
              t \in Types, n \in Names}
    \cup {[Stmt("DELETE_RAW") EXCEPT !.id = i] : i \in Ids}

\* query_knowledge_graph_database(sql): execute_query with enforce_read_only,
\* and a rollback when it raises anything but ValueError
QueryTool ==
    \E stmt \in ToolStatements, outs \in ScriptsFor(Here) :
      \E fault \in FaultsFor(stmt, TRUE, outs) :
        /\ WithinBounds(stmt)
        /\ \E r \in {Exec(Here, stmt, TRUE, outs, fault)} :
           LET open == r.st.connection # "None" /\ r.st.closed = 0
               st2 == IF r.result = "RuntimeError" /\ open
                      THEN Rollback(r.st) ELSE r.st
           IN  /\ Install(st2)
               /\ last' = CallRecord("query_tool", stmt, TRUE, fault, r)
               /\ acked' = AckedAfter(stmt, r)
               /\ failStreak' = StreakAfter(r)
        /\ UNCHANGED <<classVars, connVars, graphVars, loop>>

\* db.connection.close(), from outside the executor
CloseConnection ==
    /\ connection # "None"
    /\ closed = 0
    /\ Install(Disconnected(Here, 1))
    /\ last' = [NoCall EXCEPT !.op = "close", !.streakBefore = failStreak]
    /\ UNCHANGED <<acked, failStreak, classVars, connVars, graphVars, loop>>

Init == ExecAtRest /\ ClassifierAtRest /\ ConnectAtRest /\ GraphAtRest

Next ==
    \/ ExecuteQuery
    \/ AddEntity
    \/ GetEntity
    \/ AddRelationship
    \/ AddProperty
    \/ QueryTool
    \/ CloseConnection

Spec == Init /\ [][Next]_vars

-----------------------------------------------------------------------------
(* Properties of the executor of server.py.                                *)

Failures == {"ValueError", "RuntimeError"}

OnlySelect == "Only SELECT queries are allowed"

\* the last step was a call that reached execute_query
Executed == last.stmt \in StatementKinds

\* the statement of the last call passed the checks made before the
\* connection is used
PassedChecks == Executed /\ ValidateOf[last.stmt][last.enforce] = "pass"

\* statements that the backend accepts whatever the tables hold
AlwaysAccepted == {"SELECT_ONE", "GET_ENTITY", "ADD_ENTITY", "INSERT_RAW"}

\* the backend was reachable during the last call: a closed connection was
\* reopened and the session was not lost while the statement ran
Reachable == (last.wasClosed => last.connected) /\ last.fault = "none"

\* the call of the last step did nothing to the connection
Untouched ==
    /\ last.attempts = 0 /\ last.sent = 0
    /\ last.commits = 0 /\ last.rollbacks = 0

\* C1: after any number of consecutive failed calls, a call with a valid
\* statement succeeds when the backend is reachable, and no call leaves the
\* open connection in an aborted transaction.
C1_NextCallSucceedsAfterFailure ==
    /\ (connection # "None" /\ closed = 0) => txn # "INERROR"
    /\ (/\ last.streakBefore >= 1
        /\ PassedChecks
        /\ last.stmt \in AlwaysAccepted
        /\ Reachable)
       => last.result = "ok"

\* a call that succeeds, statement sent, after MaxStreak or more failures
C1_Witness ==
    /\ last.streakBefore >= MaxStreak
    /\ last.result = "ok"
    /\ last.sent = 1
    /\ last.stmt = "ADD_ENTITY"

AfterPartialWrite ==
    /\ last.result \in Failures
    /\ last.prevInserted # 0
    /\ acked.entities # {}

\* C3 (as stated): E1 committed, E2 written by one executor call, the
\* following executor call fails: E1 is still retrievable and E2 does not
\* exist.
C3_PartialWriteUndone ==
    AfterPartialWrite =>
        /\ acked.entities \subseteq working.entities
        /\ \A e \in working.entities : e.id # last.prevInserted

\* C3 (amended): E1 is still retrievable, and E2 exists: the call that
\* wrote it committed it, the failure of the following call undoes nothing
\* of it.
C3_EarlierCallStaysCommitted ==
    AfterPartialWrite =>
        /\ acked.entities \subseteq working.entities
        /\ \E e \in committed.entities : e.id = last.prevInserted
        /\ \E e \in working.entities : e.id = last.prevInserted

\* the failing call was sent and rolled back
C3_Witness == AfterPartialWrite /\ last.sent = 1 /\ last.rollbacks = 1

\* the tables whose rows the repository methods return
Tables == {"entities", "relationships", "properties"}

\* C5: every entity, relationship and property that a successful call
\* returned is in the committed tables and in the tables the session sees,
\* in every state: before a closure from outside, while the connection is
\* closed, and after the reconnect of the next call.
C5_AcknowledgedWritesSurviveClosure ==
    \A t \in Tables :
        /\ acked[t] \subseteq committed[t]
        /\ acked[t] \subseteq working[t]

\* an entity, a relationship and a property were returned, the connection
\* was closed, and get_entity reconnects and returns the entity
C5_Witness ==
    /\ \A t \in Tables : acked[t] # {}
    /\ last.op = "get_entity"
    /\ last.wasClosed /\ last.connected
    /\ last.result = "ok"
    /\ last.rows # {} /\ last.rows \subseteq acked.entities

\* C7 (as stated): a call rejected by the read-only guard does nothing to
\* the connection, and the query tool never changes stored data: the table
\* that only a statement of the tool writes is never in the committed
\* tables.
C7_ToolNeverChangesStoredData ==
    /\ last.message = OnlySelect => Untouched
    /\ ~committed.snapshot

\* C7 (amended): with enforce_read_only a statement that is not classified
\* read-only is rejected with "Only SELECT queries are allowed", and the
\* rejected call leaves connection, transaction and tables as they were;
\* the query tool sends only statements classified read-only and the
\* executor does not commit after them.
C7_RejectedCallChangesNothing ==
    [][/\ (/\ last'.stmt \in StatementKinds \ {"EMPTY", "BLANK"}
           /\ last'.enforce
           /\ ~ReadOnlyOf[last'.stmt])
          => last'.message = OnlySelect
       /\ last'.message = OnlySelect
          => /\ last'.result = "ValueError"
             /\ last'.attempts = 0 /\ last'.sent = 0
             /\ last'.commits = 0 /\ last'.rollbacks = 0
             /\ UNCHANGED <<connection, closed, txn, working, committed,
                            seqs>>
       /\ (last'.op = "query_tool" /\ last'.sent = 1)
          => ReadOnlyOf[last'.stmt] /\ last'.commits = 0]_vars

\* the tool was given an INSERT while the connection was closed: rejected,
\* and the connection is still closed
C7_Witness ==
    /\ last.op = "query_tool"
    /\ last.stmt = "INSERT_RAW"
    /\ last.message = OnlySelect
    /\ closed # 0

\* C10: a call with an empty or whitespace-only statement raises
\* "Query cannot be empty" and leaves connection, transaction and tables as
\* they were: no reconnect, nothing sent, no commit, no rollback.
C10_EmptyStatementTouchesNothing ==
    [][last'.stmt \in {"EMPTY", "BLANK"} =>
          /\ last'.result = "ValueError"
          /\ last'.message = "Query cannot be empty"
          /\ last'.attempts = 0 /\ last'.sent = 0
          /\ last'.commits = 0 /\ last'.rollbacks = 0
          /\ UNCHANGED <<connection, closed, txn, working, committed,
                         seqs>>]_vars

\* a whitespace-only statement given while the connection is closed: the
\* connection stays closed
C10_Witness ==
    /\ last.stmt = "BLANK"
    /\ last.message = "Query cannot be empty"
    /\ closed # 0

-----------------------------------------------------------------------------
(* PostgresDB.execute_query of kg/db.py, on an instance of its own.        *)

\* lines 68-69: reconnect when the handle is None or closed
KgEnsureConnection(st, outs) ==
    IF st.connection = "None" \/ st.closed # 0
    THEN LET run == InitDatabase("kg", outs)
         IN  [st |-> IF run.connected THEN Connected(st) ELSE st,
              raised |-> run.raised, attempts |-> run.attempts,
              connected |-> run.connected]
    ELSE [st |-> st, raised |-> "", attempts |-> 0, connected |-> FALSE]

\* transaction(), lines 42-52: commit after the body, or rollback and
\* re-raise; rollback on a closed connection raises InterfaceError instead
KgTransaction(x) ==
    IF x.exc = ""
    THEN [st |-> Commit(x.st), raised |-> "", commits |-> 1, rollbacks |-> 0]
    ELSE IF x.st.closed # 0
    THEN [st |-> x.st, raised |-> "InterfaceError", commits |-> 0,
          rollbacks |-> 0]
    ELSE [st |-> Rollback(x.st), raised |-> x.exc, commits |-> 0,
          rollbacks |-> 1]

\* lines 54-77: the whole call; result is "ok" or the exception raised
KgExec(st, stmt, outs, fault) ==
    LET wasClosed == st.connection = "None" \/ st.closed # 0
        c == KgEnsureConnection(st, outs)
        base == [st |-> c.st, result |-> c.raised, message |-> "",
                 returned |-> "none", rows |-> {}, wasClosed |-> wasClosed,
                 connected |-> c.connected, attempts |-> c.attempts,
                 sent |-> 0, commits |-> 0, rollbacks |-> 0, inserted |-> 0]
    IN  IF c.raised # "" THEN base
        ELSE LET x == CursorExecute(c.st, stmt, fault)
                 t == KgTransaction(x)
             IN  [base EXCEPT !.st = t.st,
                              !.result = IF t.raised = "" THEN "ok"
                                         ELSE t.raised,
                              !.returned = IF t.raised # "" THEN "none"
                                           ELSE IF x.description THEN "rows"
                                           ELSE "None",
                              !.rows = x.rows, !.sent = x.sent,
                              !.commits = t.commits,
                              !.rollbacks = t.rollbacks,
                              !.inserted = x.inserted]

\* the outcomes of the connect attempts a call of kg/db.py may meet
KgScriptsFor(st) ==
    IF st.connection = "None" \/ st.closed # 0
    THEN {AllOk,
          [AllOk EXCEPT ![1] = "Exception"],
          [AllOk EXCEPT ![1] = "OperationalError", ![2] = "Exception"],
          [i \in 1..max_retries |-> "OperationalError"]}
    ELSE {AllOk}

\* the faults a statement of kg/db.py can meet: none before it is sent
KgFaultsFor(stmt, outs) ==
    IF stmt.kind # "TOO_MANY_PARAMS" /\ InitDatabase("kg", outs).connected
    THEN Faults ELSE {"none"}

\* db.execute_query(query, params) of kg/db.py
KgExecuteQuery ==
    /\ variant = "kg"
    /\ \E stmt \in RawStatements, outs \in KgScriptsFor(Here) :
         \E fault \in KgFaultsFor(stmt, outs) :
           /\ WithinBounds(stmt)
           /\ \E r \in {KgExec(Here, stmt, outs, fault)} :
                  /\ Install(r.st)
                  /\ last' = CallRecord("kg_execute_query", stmt, FALSE,
                                        fault, r)
                  /\ acked' = AckedAfter(stmt, r)
                  /\ failStreak' = StreakAfter(r)
    /\ UNCHANGED <<classVars, connVars, graphVars, loop>>

\* one instance of either class, its execute_query, and closures of its
\* connection from outside
InitExecutors ==
    /\ ExecAtRest
    /\ GraphAtRest
    /\ ClassifierAtRest
    /\ script = <<>>
    /\ connRun = NoRun
    /\ connection_config = TestConfig
    /\ variant \in {"server", "kg"}

NextExecutors ==
    \/ ExecuteQuery
    \/ KgExecuteQuery
    \/ CloseConnection

SpecExecutors == InitExecutors /\ [][NextExecutors]_vars

\* the call of the last step passed whatever its executor checks before
\* it uses the connection: kg/db.py checks nothing
ReachedConnection ==
    Executed /\ (last.op = "kg_execute_query" \/ PassedChecks)

\* C4: a call that finds the connection closed runs the connect procedure
\* before it sends anything; when no attempt succeeds nothing is sent and
\* the call fails; when one succeeds the connection is open when the call
\* returns and a valid statement gives its normal result.
C4_ClosedConnectionIsReopened ==
    (ReachedConnection /\ last.wasClosed) =>
        /\ last.attempts \in 1..max_retries
        /\ ~last.connected =>
              /\ last.sent = 0
              /\ last.result # "ok"
              /\ closed # 0
        /\ (last.connected /\ last.fault = "none") =>
              connection # "None" /\ closed = 0
        /\ (last.connected /\ last.fault = "none"
               /\ last.stmt \in AlwaysAccepted) =>
              /\ last.result = "ok"
              /\ last.sent = 1
              /\ last.stmt = "SELECT_ONE" =>
                    last.returned = "rows" /\ last.rows = {[num |-> 1]}
              /\ last.stmt = "INSERT_RAW" => last.returned = "None"

\* SELECT 1 as num on a closed connection: the second connect attempt
\* succeeds and the call returns the row
C4_Witness ==
    /\ last.op = "execute_query"
    /\ last.stmt = "SELECT_ONE"
    /\ last.wasClosed /\ last.connected
    /\ last.attempts = 2
    /\ last.rows = {[num |-> 1]}
    /\ closed = 0

\* the same on the executor of kg/db.py
C4_WitnessKg ==
    /\ last.op = "kg_execute_query"
    /\ last.stmt = "SELECT_ONE"
    /\ last.wasClosed /\ last.connected
    /\ last.attempts = 3
    /\ last.rows = {[num |-> 1]}
    /\ closed = 0

-----------------------------------------------------------------------------
(* The graph repository: the statements it gives to execute_query, as the  *)
(* backend runs them. Each execute_query call is one transaction: the      *)
(* statement is committed, or it raises and changes nothing.               *)

\* None, for an argument that is a string
NoneStr == "None"

\* the backend as one call finds it
Graph == [tables |-> tables, nextId |-> nextId, clock |-> clock]

\* a statement that ran: the backend after it and the rows it returns
Ran(g, rows) == [g |-> g, rows |-> rows, exc |-> ""]

\* a statement that the backend refused: nothing changes but the sequences
Raised(g, exc) == [g |-> g, rows |-> {}, exc |-> exc]

\* clock_timestamp() of the next statement is later; MaxClock + 1 stands for
\* every time after MaxClock
Tick(g) == [g EXCEPT !.clock = IF @ > MaxClock THEN @ ELSE @ + 1]

\* the rows of t that name a row of another table which is not there
Dangling(t) ==
    {r \in t.relationships :
        \/ ~\E e \in t.entities : e.id = r.source_id
        \/ ~\E e \in t.entities : e.id = r.target_id}
    \cup {p \in t.properties :
            \/ p.entity_id # Null
               /\ ~\E e \in t.entities : e.id = p.entity_id
            \/ p.relationship_id # Null
               /\ ~\E r \in t.relationships : r.id = p.relationship_id}

\* ON DELETE CASCADE: rows that name a deleted row go with it
RECURSIVE Cascade(_)
Cascade(t) ==
    IF Dangling(t) = {} THEN t
    ELSE Cascade([t EXCEPT !.relationships = @ \ Dangling(t),
                           !.properties = @ \ Dangling(t)])

\* a DELETE that leaves the tables t: under the rule of the schema
Deleted(g, t) ==
    IF Dangling(t) = {} THEN Ran([g EXCEPT !.tables = t], {})
    ELSE IF on_delete = "cascade"
    THEN Ran([g EXCEPT !.tables = Cascade(t)], {})
    ELSE Raised(g, "IntegrityError")

\* two entities with the same type and name: the schema refuses them
Duplicates(t) ==
    \E a \in t.entities, b \in t.entities :
        a.id # b.id /\ a.type = b.type /\ a.name = b.name

\* A plausible slip: the foreign keys are not declared, and an INSERT may
\* name a row that is not there.
WrittenUnchecked(g, t, rows) ==
    IF ~Duplicates(t)
    THEN Ran(Tick([g EXCEPT !.tables = t]), rows)
    ELSE Raised(g, "IntegrityError")

\* an INSERT or UPDATE that leaves the tables t and returns rows
Written(g, t, rows) ==
    IF Dangling(t) = {} /\ ~Duplicates(t)
    THEN Ran(Tick([g EXCEPT !.tables = t]), rows)
    ELSE Raised(g, "IntegrityError")

\* the column defaults of the schema: created_at and last_updated of a new
\* row are the time of the INSERT
Stamped(g, row) ==
    row @@ [created_at |-> g.clock, last_updated |-> g.clock]

\* INSERT INTO entities (type, name) VALUES (%s, %s) RETURNING ...
InsertEntity(g, type, name) ==
    LET row == Stamped(g, [id |-> g.nextId.entities, type |-> type,
                           name |-> name])
        g2 == [g EXCEPT !.nextId.entities = @ + 1]
    IN  Written(g2, [g.tables EXCEPT !.entities = @ \cup {row}], {row})

\* SELECT ... FROM entities WHERE id = %s
SelectEntity(g, id) == Ran(g, {e \in g.tables.entities : e.id = id})

\* SELECT ... FROM entities WHERE type = %s AND name = %s
SelectEntityNamed(g, type, name) ==
    Ran(g, {e \in g.tables.entities : e.type = type /\ e.name = name})

\* A plausible slip: last_updated = clock_timestamp() is left out of SET.
UpdateEntityRowKeepsTime(g, id, type, name) ==
    LET new(e) == [e EXCEPT !.type = IF type = NoneStr THEN @ ELSE type,
                            !.name = IF name = NoneStr THEN @ ELSE name]
        hit == {e \in g.tables.entities : e.id = id}
        t == [g.tables EXCEPT
                 !.entities = (@ \ hit) \cup {new(e) : e \in hit}]
    IN  Written(g, t, {new(e) : e \in hit})

\* UPDATE entities SET [type = %s,] [name = %s,] last_updated =
\* clock_timestamp() WHERE id = %s RETURNING ...
UpdateEntityRow(g, id, type, name) ==
    LET new(e) == [e EXCEPT !.type = IF type = NoneStr THEN @ ELSE type,
                            !.name = IF name = NoneStr THEN @ ELSE name,
                            !.last_updated = g.clock]
        hit == {e \in g.tables.entities : e.id = id}
        t == [g.tables EXCEPT
                 !.entities = (@ \ hit) \cup {new(e) : e \in hit}]
    IN  Written(g, t, {new(e) : e \in hit})

\* DELETE FROM entities WHERE id = %s
DeleteEntityRow(g, id) ==
    Deleted(g, [g.tables EXCEPT !.entities = {e \in @ : e.id # id}])

\* SELECT EXISTS(SELECT 1 FROM <table> WHERE id = %s)
SelectExists(g, table, id) ==
    Ran(g, {[exists |-> \E r \in g.tables[table] : r.id = id]})

\* INSERT INTO relationships (source_id, target_id, type) ... RETURNING ...
InsertRelationship(g, source_id, target_id, type) ==
    LET row == Stamped(g, [id |-> g.nextId.relationships,
                           source_id |-> source_id, target_id |-> target_id,
                           type |-> type])
        g2 == [g EXCEPT !.nextId.relationships = @ + 1]
    IN  Written(g2, [g.tables EXCEPT !.relationships = @ \cup {row}], {row})

\* DELETE FROM relationships WHERE source_id = %s OR target_id = %s
DeleteRelationshipsOf(g, id) ==
    Deleted(g, [g.tables EXCEPT !.relationships =
                   {r \in @ : r.source_id # id /\ r.target_id # id}])

\* DELETE FROM relationships WHERE id = %s
DeleteRelationshipRow(g, id) ==
    Deleted(g, [g.tables EXCEPT !.relationships = {r \in @ : r.id # id}])

\* SELECT id FROM entities WHERE id IN (%s, %s)
SelectEntitiesIn(g, a, b) ==
    Ran(g, {[id |-> e.id] : e \in {x \in g.tables.entities : x.id \in {a, b}}})

\* SELECT id FROM relationships WHERE id = %s
SelectRelationship(g, id) ==
    Ran(g, {r \in g.tables.relationships : r.id = id})

\* INSERT INTO properties (entity_id, relationship_id, key, value, ...)
InsertProperty(g, entity_id, relationship_id, key, value) ==
    LET row == Stamped(g, [id |-> g.nextId.properties,
                           entity_id |-> entity_id,
                           relationship_id |-> relationship_id, key |-> key,
                           value |-> value])
        g2 == [g EXCEPT !.nextId.properties = @ + 1]
    IN  Written(g2, [g.tables EXCEPT !.properties = @ \cup {row}], {row})

\* SELECT ... FROM properties WHERE <owner> = %s [AND key = %s]
SelectProperties(g, entity_id, relationship_id, key) ==
    Ran(g, {p \in g.tables.properties :
              /\ entity_id # Null => p.entity_id = entity_id
              /\ relationship_id # Null => p.relationship_id = relationship_id
              /\ key # NoneStr => p.key = key})

\* UPDATE properties SET value = %s, last_updated = ... WHERE <which rows>
UpdatePropertyRows(g, hit, value) ==
    LET new(p) == [p EXCEPT !.value = value, !.last_updated = g.clock]
        t == [g.tables EXCEPT
                 !.properties = (@ \ hit) \cup {new(p) : p \in hit}]
    IN  Written(g, t, {new(p) : p \in hit})

\* UPDATE properties ... WHERE id = %s RETURNING ...
UpdatePropertyRow(g, id, value) ==
    UpdatePropertyRows(g, {p \in g.tables.properties : p.id = id}, value)

\* UPDATE properties ... WHERE <owner column> = %s AND key = %s RETURNING ...
UpdatePropertiesOf(g, column, owner, key, value) ==
    UpdatePropertyRows(g, {p \in g.tables.properties :
                              p[column] = owner /\ p.key = key}, value)

\* DELETE FROM properties WHERE entity_id = %s
DeletePropertiesOfEntity(g, id) ==
    Deleted(g, [g.tables EXCEPT !.properties = {p \in @ : p.entity_id # id}])

\* A plausible slip: the statement of delete_entity, which names entity_id.
DeletePropertiesOfRelationshipByEntity(g, id) ==
    Deleted(g, [g.tables EXCEPT !.properties = {p \in @ : p.entity_id # id}])

\* DELETE FROM properties WHERE relationship_id = %s
DeletePropertiesOfRelationship(g, id) ==
    Deleted(g, [g.tables EXCEPT
                   !.properties = {p \in @ : p.relationship_id # id}])

\* DELETE FROM properties WHERE id = %s
DeletePropertyRow(g, id) ==
    Deleted(g, [g.tables EXCEPT !.properties = {p \in @ : p.id # id}])

-----------------------------------------------------------------------------
(* The repository methods of PostgresDB in server.py. Each gives the       *)
(* backend after the call, the result ("ok" or the exception raised), the  *)
(* message, the records returned (rows) and the boolean returned (flag).   *)

Ok(g, rows, flag) ==
    [g |-> g, result |-> "ok", message |-> "", rows |-> rows, flag |-> flag]

Fail(g, result, message) ==
    [g |-> g, result |-> result, message |-> message, rows |-> {},
     flag |-> FALSE]

\* A plausible slip: the parameters are given in the wrong order.
SAddEntitySwapped(g, type, name) ==
    IF IsBlank(type) THEN Fail(g, "ValueError", "Entity type cannot be empty")
    ELSE IF IsBlank(name)
    THEN Fail(g, "ValueError", "Entity name cannot be empty")
    ELSE LET x == InsertEntity(g, name, type)
         IN  IF x.exc # "" \/ Cardinality(x.rows) # 1
             THEN Fail(x.g, "RuntimeError", "Failed to add entity")
             ELSE Ok(x.g, x.rows, FALSE)

\* PostgresDB.add_entity, lines 197-229
SAddEntity(g, type, name) ==
    IF IsBlank(type) THEN Fail(g, "ValueError", "Entity type cannot be empty")
    ELSE IF IsBlank(name)
    THEN Fail(g, "ValueError", "Entity name cannot be empty")
    ELSE LET x == InsertEntity(g, type, name)
         IN  IF x.exc # "" \/ Cardinality(x.rows) # 1
             THEN Fail(x.g, "RuntimeError", "Failed to add entity")
             ELSE Ok(x.g, x.rows, FALSE)

\* the row that a result without ORDER BY has first: any of them
Firsts(rows) == IF rows = {} THEN {{}} ELSE {{r} : r \in rows}

\* PostgresDB.get_entity, lines 231-265: result[0] is returned, given here
\* as first, one of Firsts of the rows selected
SGetEntity(g, entity_id, type, name, first) ==
    IF entity_id = Null /\ (type = NoneStr \/ name = NoneStr)
    THEN Fail(g, "ValueError",
              "Must provide either entity_id or both type and name")
    ELSE LET x == IF entity_id # Null THEN SelectEntity(g, entity_id)
                  ELSE SelectEntityNamed(g, type, name)
         IN  IF first \in Firsts(x.rows) THEN Ok(x.g, first, FALSE)
             ELSE Fail(x.g, "none", "")

\* PostgresDB.update_entity, lines 267-312
SUpdateEntity(g, entity_id, type, name) ==
    IF entity_id = Null THEN Fail(g, "ValueError", "Entity ID is required")
    ELSE IF type = NoneStr /\ name = NoneStr
    THEN Fail(g, "ValueError",
              "At least one of type or name must be provided")
    ELSE IF type = "" THEN Fail(g, "ValueError", "Entity type cannot be empty")
    ELSE IF name = "" THEN Fail(g, "ValueError", "Entity name cannot be empty")
    ELSE LET x == UpdateEntityRow(g, entity_id, type, name)
         IN  IF x.exc # ""
             THEN Fail(x.g, "RuntimeError", "Failed to update entity")
             ELSE Ok(x.g, x.rows, FALSE)

\* PostgresDB.delete_entity, lines 314-341: three deletes, each committed by
\* its own execute_query call, then the check that the entity is gone
SDeleteEntity(g, entity_id) ==
    IF entity_id = Null THEN Fail(g, "ValueError", "Entity ID is required")
    ELSE
      LET failed(x) == Fail(x.g, "RuntimeError", "Failed to delete entity")
          a == DeletePropertiesOfEntity(g, entity_id)
          b == DeleteRelationshipsOf(a.g, entity_id)
          c == DeleteEntityRow(b.g, entity_id)
          d == SelectExists(c.g, "entities", entity_id)
      IN  IF a.exc # "" THEN failed(a)
          ELSE IF b.exc # "" THEN failed(b)
          ELSE IF c.exc # "" THEN failed(c)
          ELSE Ok(d.g, {}, \A r \in d.rows : ~r.exists)

\* PostgresDB.add_property, lines 343-388
SAddProperty(g, key, value, entity_id, relationship_id) ==
    IF IsBlank(key) THEN Fail(g, "ValueError", "Property key cannot be empty")
    ELSE IF value = NoneStr
    THEN Fail(g, "ValueError", "Property value cannot be None")
    ELSE IF entity_id = Null /\ relationship_id = Null
    THEN Fail(g, "ValueError",
              "Must provide either entity_id or relationship_id")
    ELSE IF entity_id # Null /\ relationship_id # Null
    THEN Fail(g, "ValueError",
              "Cannot provide both entity_id and relationship_id")
    ELSE LET x == InsertProperty(g, entity_id, relationship_id, key, value)
         IN  IF x.exc # "" \/ Cardinality(x.rows) # 1
             THEN Fail(x.g, "RuntimeError", "Failed to add property")
             ELSE Ok(x.g, x.rows, FALSE)

\* Property(...) of get_properties and update_property, lines 423-431 and
\* 469-477: relationship_id is not passed and keeps its default, None
PropertyWithoutRelationship(row) == [row EXCEPT !.relationship_id = Null]

\* PostgresDB.get_properties, lines 390-435; "if key:" takes "" for no key
SGetProperties(g, entity_id, relationship_id, key) ==
    IF entity_id = Null /\ relationship_id = Null
    THEN Fail(g, "ValueError",
              "Must provide either entity_id or relationship_id")
    ELSE IF entity_id # Null /\ relationship_id # Null
    THEN Fail(g, "ValueError",
              "Cannot provide both entity_id and relationship_id")
    ELSE LET x == SelectProperties(g, entity_id, relationship_id,
                                   IF key = "" THEN NoneStr ELSE key)
         IN  Ok(x.g, {PropertyWithoutRelationship(p) : p \in x.rows}, FALSE)

\* PostgresDB.update_property, lines 437-479
SUpdateProperty(g, property_id, value) ==
    IF property_id = Null THEN Fail(g, "ValueError", "Property ID is required")
    ELSE IF value = NoneStr
    THEN Fail(g, "ValueError", "Must provide either value or value_type")
    ELSE LET x == UpdatePropertyRow(g, property_id, value)
         IN  IF x.exc # ""
             THEN Fail(x.g, "RuntimeError", "Failed to update property")
             ELSE Ok(x.g, {PropertyWithoutRelationship(p) : p \in x.rows},
                     FALSE)

\* PostgresDB.delete_property, lines 481-493
SDeleteProperty(g, property_id) ==
    IF property_id = Null THEN Fail(g, "ValueError", "Property ID is required")
    ELSE LET a == DeletePropertyRow(g, property_id)
             d == SelectExists(a.g, "properties", property_id)
         IN  IF a.exc # ""
             THEN Fail(a.g, "RuntimeError", "Failed to delete property")
             ELSE Ok(d.g, {}, \A r \in d.rows : ~r.exists)

\* PostgresDB.add_relationship, lines 495-524
SAddRelationship(g, source_id, target_id, type) ==
    IF source_id = Null
    THEN Fail(g, "ValueError", "Source entity ID is required")
    ELSE IF target_id = Null
    THEN Fail(g, "ValueError", "Target entity ID is required")
    ELSE IF IsBlank(type)
    THEN Fail(g, "ValueError", "Relationship type cannot be empty")
    ELSE LET x == InsertRelationship(g, source_id, target_id, type)
         IN  IF x.exc # "" \/ Cardinality(x.rows) # 1
             THEN Fail(x.g, "RuntimeError", "Failed to add relationship")
             ELSE Ok(x.g, x.rows, FALSE)

\* PostgresDB.delete_relationship, lines 596-608
SDeleteRelationship(g, relationship_id) ==
    IF relationship_id = Null
    THEN Fail(g, "ValueError", "Relationship ID is required")
    ELSE LET a == DeleteRelationshipRow(g, relationship_id)
             d == SelectExists(a.g, "relationships", relationship_id)
         IN  IF a.exc # ""
             THEN Fail(a.g, "RuntimeError", "Failed to delete relationship")
             ELSE Ok(d.g, {}, \A r \in d.rows : ~r.exists)

-----------------------------------------------------------------------------
(* The tools of server.py that call several repository methods. A map of   *)
(* properties is the sequence of its <<key, value>> pairs, in the order of *)
(* the dict. An exception leaves what the earlier calls committed.         *)

\* except Exception as e: raise ValueError(str(e))
AsValueError(r) ==
    IF r.result = "ok" THEN r ELSE [r EXCEPT !.result = "ValueError"]

\* for key, value in properties.items(): db.add_property(...)
RECURSIVE SAddProperties(_, _, _, _)
SAddProperties(g, properties, entity_id, relationship_id) ==
    IF properties = <<>> THEN Ok(g, {}, TRUE)
    ELSE LET a == SAddProperty(g, Head(properties)[1], Head(properties)[2],
                               entity_id, relationship_id)
         IN  IF a.result # "ok" THEN a
             ELSE SAddProperties(a.g, Tail(properties), entity_id,
                                 relationship_id)

\* the id of the one row of rows
IdOf(rows) == CHOOSE id \in {r.id : r \in rows} : TRUE

\* tool add_entity, lines 784-816
TAddEntity(g, type, name, properties) ==
    LET e == SAddEntity(g, type, name)
    IN  IF e.result # "ok" THEN AsValueError(e)
        ELSE LET p == SAddProperties(e.g, properties, IdOf(e.rows), Null)
             IN  IF p.result # "ok" THEN AsValueError(p)
                 ELSE Ok(p.g, e.rows, TRUE)

\* tool add_relationship, lines 961-995
TAddRelationship(g, source_id, target_id, type, properties) ==
    LET e == SAddRelationship(g, source_id, target_id, type)
    IN  IF e.result # "ok" THEN AsValueError(e)
        ELSE LET p == SAddProperties(e.g, properties, Null, IdOf(e.rows))
             IN  IF p.result # "ok" THEN AsValueError(p)
                 ELSE Ok(p.g, e.rows, TRUE)

\* the loop of tool update_properties, lines 842-854: every way it can go,
\* existing[0] being any of the rows that get_properties returns
RECURSIVE SUpsertProperties(_, _, _, _)
SUpsertProperties(g, properties, entity_id, relationship_id) ==
    IF properties = <<>> THEN {Ok(g, {}, TRUE)}
    ELSE
      LET key == Head(properties)[1]
          value == Head(properties)[2]
          rest(r) == IF r.result # "ok" THEN {r}
                     ELSE SUpsertProperties(r.g, Tail(properties), entity_id,
                                            relationship_id)
          existing == SGetProperties(g, entity_id, relationship_id, key)
      IN  IF existing.result # "ok" THEN {existing}
          ELSE IF existing.rows # {}
          THEN UNION {rest(SUpdateProperty(existing.g, p.id, value)) :
                         p \in existing.rows}
          ELSE rest(SAddProperty(existing.g, key, value, entity_id,
                                 relationship_id))

\* tool update_properties, lines 818-860: the outcomes it can have
TUpdateProperties(g, entity_id, relationship_id, properties) ==
    IF entity_id = Null /\ relationship_id = Null
    THEN {Fail(g, "ValueError",
               "Must provide either entity_id or relationship_id")}
    ELSE IF entity_id # Null /\ relationship_id # Null
    THEN {Fail(g, "ValueError",
               "Cannot provide both entity_id and relationship_id")}
    ELSE IF entity_id # Null /\ SelectEntity(g, entity_id).rows = {}
    THEN {Fail(g, "ValueError", "Entity with ID not found")}
    ELSE {AsValueError(r) :
            r \in SUpsertProperties(g, properties, entity_id,
                                    relationship_id)}

\* tool delete_entity, lines 862-879
TDeleteEntity(g, id) ==
    LET d == SDeleteEntity(g, id)
    IN  IF d.result # "ok" THEN AsValueError(d)
        ELSE IF ~d.flag THEN Fail(d.g, "ValueError", "Entity with ID not found")
        ELSE Ok(d.g, {}, TRUE)

\* tool delete_relationship, lines 1022-1038
TDeleteRelationship(g, id) ==
    LET d == SDeleteRelationship(g, id)
    IN  IF d.result # "ok" THEN AsValueError(d)
        ELSE IF ~d.flag
        THEN Fail(d.g, "ValueError", "Relationship with ID not found")
        ELSE Ok(d.g, {}, TRUE)

-----------------------------------------------------------------------------
(* add_property of PostgresDB in postgres.py, which tests its ids for      *)
(* truth. Zero stands for the id 0 given as an argument, which is not None *)
(* and is not true.                                                        *)

Zero == -1

Truthy(id) == id # Null /\ id # Zero

\* PostgresDB.add_property of postgres.py, lines 362-424: no row has the id
\* 0, so the INSERT that names it as owner is refused
PAddProperty(g, key, value, entity_id, relationship_id) ==
    IF IsBlank(key) THEN Fail(g, "ValueError", "Property key cannot be empty")
    ELSE IF value = NoneStr
    THEN Fail(g, "ValueError", "Property value cannot be None")
    ELSE IF ~(Truthy(entity_id) \/ Truthy(relationship_id))
    THEN Fail(g, "ValueError",
              "Must provide either entity_id or relationship_id")
    ELSE IF Truthy(entity_id) /\ Truthy(relationship_id)
    THEN Fail(g, "ValueError",
              "Cannot provide both entity_id and relationship_id")
    ELSE LET x == IF Zero \in {entity_id, relationship_id}
                  THEN Raised([g EXCEPT !.nextId.properties = @ + 1],
                              "IntegrityError")
                  ELSE InsertProperty(g, entity_id, relationship_id, key,
                                      value)
         IN  IF x.exc # "" \/ Cardinality(x.rows) # 1
             THEN Fail(x.g, "RuntimeError", "Failed to add property")
             ELSE Ok(x.g, x.rows, FALSE)

-----------------------------------------------------------------------------
(* The tools of kg/tools, which give their statements to execute_query of  *)
(* kg/db.py themselves. Every exception becomes ValueError(str(e)).        *)

\* for key, value in properties.items(): INSERT INTO properties ...
RECURSIVE KInsertProperties(_, _, _, _)
KInsertProperties(g, properties, entity_id, relationship_id) ==
    IF properties = <<>> THEN Ok(g, {}, TRUE)
    ELSE LET x == InsertProperty(g, entity_id, relationship_id,
                                 Head(properties)[1], Head(properties)[2])
         IN  IF x.exc # "" THEN Fail(x.g, "ValueError", x.exc)
             ELSE KInsertProperties(x.g, Tail(properties), entity_id,
                                    relationship_id)

\* add_entity of kg/tools/entity.py, lines 11-42
KAddEntity(g, type, name, properties) ==
    LET x == InsertEntity(g, type, name)
    IN  IF x.exc # "" THEN Fail(x.g, "ValueError", x.exc)
        ELSE IF Cardinality(x.rows) # 1
        THEN Fail(x.g, "ValueError", "Failed to create entity")
        ELSE LET p == KInsertProperties(x.g, properties, IdOf(x.rows), Null)
             IN  IF p.result # "ok" THEN p ELSE Ok(p.g, x.rows, TRUE)

\* A plausible slip: the properties are deleted and the entity is left.
KDeleteEntityPropertiesOnly(g, id) ==
    LET a == DeletePropertiesOfEntity(g, id)
    IN  IF a.exc # "" THEN Fail(a.g, "ValueError", a.exc)
        ELSE Ok(a.g, {}, TRUE)

\* delete_entity of kg/tools/entity.py, lines 44-58
KDeleteEntity(g, id) ==
    LET a == DeletePropertiesOfEntity(g, id)
        b == DeleteEntityRow(a.g, id)
    IN  IF a.exc # "" THEN Fail(a.g, "ValueError", a.exc)
        ELSE IF b.exc # "" THEN Fail(b.g, "ValueError", b.exc)
        ELSE Ok(b.g, {}, TRUE)

\* add_relationship of kg/tools/relationship.py, lines 19-55
KAddRelationship(g, source_id, target_id, type, properties) ==
    LET found == SelectEntitiesIn(g, source_id, target_id)
        x == InsertRelationship(found.g, source_id, target_id, type)
    IN  IF Cardinality(found.rows) # 2
        THEN Fail(found.g, "ValueError",
                  "Both source and target entities must exist")
        ELSE IF x.exc # "" THEN Fail(x.g, "ValueError", x.exc)
        ELSE IF Cardinality(x.rows) # 1
        THEN Fail(x.g, "ValueError", "Failed to create relationship")
        ELSE LET p == KInsertProperties(x.g, properties, Null, IdOf(x.rows))
             IN  IF p.result # "ok" THEN p ELSE Ok(p.g, x.rows, TRUE)

\* delete_relationship of kg/tools/relationship.py, lines 112-125
KDeleteRelationship(g, id) ==
    LET a == DeletePropertiesOfRelationship(g, id)
        b == DeleteRelationshipRow(a.g, id)
    IN  IF a.exc # "" THEN Fail(a.g, "ValueError", a.exc)
        ELSE IF b.exc # "" THEN Fail(b.g, "ValueError", b.exc)
        ELSE Ok(b.g, {}, TRUE)

\* the loop of update_properties of kg/tools/property.py, lines 82-108
RECURSIVE KUpsertProperties(_, _, _, _, _)
KUpsertProperties(g, properties, column, owner, done) ==
    IF properties = <<>> THEN Ok(g, done, TRUE)
    ELSE
      LET key == Head(properties)[1]
          value == Head(properties)[2]
          u == UpdatePropertiesOf(g, column, owner, key, value)
          i == IF column = "entity_id"
               THEN InsertProperty(u.g, owner, Null, key, value)
               ELSE InsertProperty(u.g, Null, owner, key, value)
      IN  IF u.exc # "" THEN Fail(u.g, "ValueError", u.exc)
          ELSE IF u.rows # {}
          THEN KUpsertProperties(u.g, Tail(properties), column, owner,
                                 done \cup u.rows)
          ELSE IF i.exc # "" THEN Fail(i.g, "ValueError", i.exc)
          ELSE KUpsertProperties(i.g, Tail(properties), column, owner,
                                 done \cup i.rows)

\* update_properties of kg/tools/property.py, lines 58-120: "if entity_id:"
\* chooses the owner, so the entity is taken when both ids are given
KUpdateProperties(g, entity_id, relationship_id, properties) ==
    IF entity_id = Null /\ relationship_id = Null
    THEN Fail(g, "ValueError",
              "Must provide either entity_id or relationship_id")
    ELSE IF properties = <<>>
    THEN Fail(g, "ValueError", "No properties provided for update")
    ELSE IF entity_id # Null
    THEN IF SelectEntity(g, entity_id).rows = {}
         THEN Fail(g, "ValueError", "Entity not found")
         ELSE KUpsertProperties(g, properties, "entity_id", entity_id, {})
    ELSE IF SelectRelationship(g, relationship_id).rows = {}
    THEN Fail(g, "ValueError", "Relationship not found")
    ELSE KUpsertProperties(g, properties, "relationship_id",
                           relationship_id, {})

-----------------------------------------------------------------------------
(* Calls on the graph repository, one instance of one implementation.     *)

GTypes == {"person", "place"}
GNames == {"Alice", "Bob"}
GKeys == {"age", "city"}
GValues == {"30", "31"}
GIds == {1, 2}

\* the sequences of the model are bounded
CanInsert(table, n) ==
    nextId[table] + n - 1 <=
       CASE table = "entities" -> MaxEntities
         [] table = "relationships" -> MaxRelationships
         [] table = "properties" -> MaxProperties

\* the times that the writes leave are told apart
CanUpdate == clock <= MaxClock

\* the call returns: the backend is as the call left it
Returns(r, record) ==
    /\ tables' = r.g.tables
    /\ nextId' = r.g.nextId
    /\ clock' = r.g.clock
    /\ call' = [record EXCEPT !.result = r.result, !.message = r.message,
                              !.rows = r.rows, !.flag = r.flag]
    /\ before' = tables
    /\ UNCHANGED <<on_delete, execVars, classVars, connVars, loop>>

\* db.add_entity(type, name), the same in server.py and in postgres.py
GAddEntity ==
    /\ variant \in {"server", "postgres"}
    /\ CanInsert("entities", 1)
    /\ \E type \in {"person", ""}, name \in GNames \cup {""} :
          Returns(SAddEntity(Graph, type, name),
                  [NoGraphCall EXCEPT !.op = "add_entity", !.type = type,
                                      !.name = name])

\* db.get_entity(entity_id=...) and db.get_entity(type=..., name=...)
GGetEntity ==
    /\ variant = "server"
    /\ \E id \in GIds \cup {Null}, type \in GTypes \cup {NoneStr},
          name \in GNames \cup {NoneStr} :
          /\ id # Null => type = NoneStr /\ name = NoneStr
          /\ \E first \in Firsts(tables.entities) :
                LET r == SGetEntity(Graph, id, type, name, first)
                IN  /\ r.result # "none"
                    /\ Returns(r, [NoGraphCall EXCEPT
                                      !.op = "get_entity", !.id = id,
                                      !.type = type, !.name = name])

\* db.update_entity(entity_id, type, name)
GUpdateEntity ==
    /\ variant = "server"
    /\ CanUpdate
    /\ \E id \in GIds \cup {Null}, type \in GTypes \cup {NoneStr, "", " "},
          name \in GNames \cup {NoneStr, "", " "} :
          Returns(SUpdateEntity(Graph, id, type, name),
                  [NoGraphCall EXCEPT !.op = "update_entity", !.id = id,
                                      !.type = type, !.name = name])

InitEntity ==
    /\ ExecAtRest
    /\ ClassifierAtRest
    /\ script = <<>>
    /\ connRun = NoRun
    /\ connection_config = TestConfig
    /\ variant \in {"server"}
    /\ tables = NoTables
    /\ nextId = [entities |-> 1, relationships |-> 1, properties |-> 1]
    /\ clock = 1
    /\ on_delete \in {"cascade", "restrict"}
    /\ call = NoGraphCall
    /\ before = NoTables
    /\ loop = NoLoop

NextEntity ==
    \/ GAddEntity
    \/ GGetEntity
    \/ GUpdateEntity

SpecEntity == InitEntity /\ [][NextEntity]_vars

-----------------------------------------------------------------------------
(* Calls on the whole graph: entities, relationships and properties, by    *)
(* the methods and tools of server.py, by the tools of kg/tools, and by    *)
(* add_property of postgres.py, one implementation in one behaviour.       *)

GRelTypes == {"knows"}

\* the maps of properties given to the tools
GMaps ==
    {<<>>, << <<"age", "31">> >>, << <<"", "31">> >>,
     << <<"age", "30">>, <<"city", "30">> >>}

\* the call is taken when the sequences stay within the bounds of the model
Bounded(r) ==
    /\ r.g.nextId.entities <= MaxEntities + 1
    /\ r.g.nextId.relationships <= MaxRelationships + 1
    /\ r.g.nextId.properties <= MaxProperties + 1

Called(r, record) == Bounded(r) /\ Returns(r, record)

\* tool add_entity(type, name, properties) of server.py
GToolAddEntity ==
    /\ variant = "server"
    /\ \E type \in {"person"}, name \in GNames, properties \in GMaps :
          Called(TAddEntity(Graph, type, name, properties),
                 [NoGraphCall EXCEPT !.op = "tool:add_entity",
                                     !.type = type, !.name = name,
                                     !.properties = properties])

\* db.add_property(key, value, value_type, entity_id, relationship_id)
GAddProperty ==
    /\ variant = "server"
    /\ \E key \in GKeys, value \in {"30"},
          entity_id \in GIds \cup {Null},
          relationship_id \in (1..MaxRelationships) \cup {Null} :
          Called(SAddProperty(Graph, key, value, entity_id, relationship_id),
                 [NoGraphCall EXCEPT !.op = "add_property", !.key = key,
                                     !.value = value,
                                     !.entity_id = entity_id,
                                     !.relationship_id = relationship_id])

\* db.get_properties(entity_id, relationship_id, key)
GGetProperties ==
    /\ variant = "server"
    /\ \E key \in GKeys \cup {NoneStr}, entity_id \in GIds \cup {Null},
          relationship_id \in (1..MaxRelationships) \cup {Null} :
          Called(SGetProperties(Graph, entity_id, relationship_id, key),
                 [NoGraphCall EXCEPT !.op = "get_properties", !.key = key,
                                     !.entity_id = entity_id,
                                     !.relationship_id = relationship_id])

\* db.update_property(property_id, value)
GUpdateProperty ==
    /\ variant = "server"
    /\ \E id \in (1..MaxProperties) \cup {Null}, value \in GValues :
          Called(SUpdateProperty(Graph, id, value),
                 [NoGraphCall EXCEPT !.op = "update_property", !.id = id,
                                     !.value = value])

\* db.delete_property(property_id)
GDeleteProperty ==
    /\ variant = "server"
    /\ \E id \in (1..MaxProperties) \cup {Null} :
          Called(SDeleteProperty(Graph, id),
                 [NoGraphCall EXCEPT !.op = "delete_property", !.id = id])

\* db.add_relationship(source_id, target_id, type)
GAddRelationship ==
    /\ variant = "server"
    /\ \E source_id \in GIds \cup {Null}, target_id \in GIds \cup {Null},
          type \in GRelTypes :
          Called(SAddRelationship(Graph, source_id, target_id, type),
                 [NoGraphCall EXCEPT !.op = "add_relationship",
                                     !.source_id = source_id,
                                     !.target_id = target_id,
                                     !.type = type])

\* db.delete_relationship(relationship_id)
GDeleteRelationship ==
    /\ variant = "server"
    /\ \E id \in (1..MaxRelationships) \cup {Null} :
          Called(SDeleteRelationship(Graph, id),
                 [NoGraphCall EXCEPT !.op = "delete_relationship",
                                     !.id = id])

\* tool delete_relationship(id) of server.py
GToolDeleteRelationship ==
    /\ variant = "server"
    /\ \E id \in 1..MaxRelationships :
          Called(TDeleteRelationship(Graph, id),
                 [NoGraphCall EXCEPT !.op = "tool:delete_relationship",
                                     !.id = id])

\* db.delete_entity(entity_id)
GDeleteEntity ==
    /\ variant = "server"
    /\ \E id \in GIds \cup {Null} :
          Called(SDeleteEntity(Graph, id),
                 [NoGraphCall EXCEPT !.op = "delete_entity", !.id = id])

\* tool delete_entity(id) of server.py
GToolDeleteEntity ==
    /\ variant = "server"
    /\ \E id \in GIds :
          Called(TDeleteEntity(Graph, id),
                 [NoGraphCall EXCEPT !.op = "tool:delete_entity",
                                     !.id = id])

\* tool update_properties(entity_id, relationship_id, properties) of server.py
GUpdateProperties ==
    /\ variant = "server"
    /\ \E entity_id \in GIds \cup {Null},
          relationship_id \in (1..MaxRelationships) \cup {Null},
          properties \in GMaps :
          \E r \in TUpdateProperties(Graph, entity_id, relationship_id,
                                     properties) :
             Called(r, [NoGraphCall EXCEPT
                           !.op = "tool:update_properties",
                           !.entity_id = entity_id,
                           !.relationship_id = relationship_id,
                           !.properties = properties])

\* db.add_property(...) of postgres.py
GPostgresAddProperty ==
    /\ variant = "postgres"
    /\ \E key \in GKeys, value \in {"30"},
          entity_id \in GIds \cup {Null, Zero},
          relationship_id \in (1..MaxRelationships) \cup {Null, Zero} :
          Called(PAddProperty(Graph, key, value, entity_id, relationship_id),
                 [NoGraphCall EXCEPT !.op = "add_property", !.key = key,
                                     !.value = value,
                                     !.entity_id = entity_id,
                                     !.relationship_id = relationship_id])

\* add_entity(type, name, properties) of kg/tools
GKgAddEntity ==
    /\ variant = "kg"
    /\ \E type \in {"person"}, name \in GNames, properties \in GMaps :
          Called(KAddEntity(Graph, type, name, properties),
                 [NoGraphCall EXCEPT !.op = "tool:add_entity",
                                     !.type = type, !.name = name,
                                     !.properties = properties])

\* delete_entity(id) of kg/tools
GKgDeleteEntity ==
    /\ variant = "kg"
    /\ \E id \in GIds :
          Called(KDeleteEntity(Graph, id),
                 [NoGraphCall EXCEPT !.op = "tool:delete_entity",
                                     !.id = id])

\* add_relationship(source_id, target_id, type, properties) of kg/tools
GKgAddRelationship ==
    /\ variant = "kg"
    /\ \E source_id \in GIds, target_id \in GIds, type \in GRelTypes,
          properties \in GMaps :
          Called(KAddRelationship(Graph, source_id, target_id, type,
                                  properties),
                 [NoGraphCall EXCEPT !.op = "tool:add_relationship",
                                     !.source_id = source_id,
                                     !.target_id = target_id,
                                     !.type = type,
                                     !.properties = properties])

\* delete_relationship(id) of kg/tools
GKgDeleteRelationship ==
    /\ variant = "kg"
    /\ \E id \in 1..MaxRelationships :
          Called(KDeleteRelationship(Graph, id),
                 [NoGraphCall EXCEPT !.op = "tool:delete_relationship",
                                     !.id = id])

\* update_properties(entity_id, relationship_id, properties) of kg/tools
GKgUpdateProperties ==
    /\ variant = "kg"
    /\ \E entity_id \in GIds \cup {Null},
          relationship_id \in (1..MaxRelationships) \cup {Null},
          properties \in GMaps :
          Called(KUpdateProperties(Graph, entity_id, relationship_id,
                                   properties),
                 [NoGraphCall EXCEPT !.op = "tool:update_properties",
                                     !.entity_id = entity_id,
                                     !.relationship_id = relationship_id,
                                     !.properties = properties])

\* an empty database; the times of this specification are all after MaxClock
InitGraph ==
    /\ ExecAtRest
    /\ ClassifierAtRest
    /\ script = <<>>
    /\ connRun = NoRun
    /\ connection_config = TestConfig
    /\ variant \in {"server", "kg"}
    /\ tables = NoTables
    /\ nextId = [entities |-> 1, relationships |-> 1, properties |-> 1]
    /\ clock = MaxClock + 1
    /\ on_delete \in {"cascade", "restrict"}
    /\ call = NoGraphCall
    /\ before = NoTables
    /\ loop = NoLoop

NextGraph ==
    \/ GToolAddEntity
    \/ GAddProperty
    \/ GAddRelationship
    \/ GDeleteProperty
    \/ GDeleteRelationship
    \/ GToolDeleteRelationship
    \/ GDeleteEntity
    \/ GToolDeleteEntity
    \/ GKgAddEntity
    \/ GKgAddRelationship
    \/ GKgDeleteEntity
    \/ GKgDeleteRelationship

SpecGraph == InitGraph /\ [][NextGraph]_vars

\* an empty database, for update_properties; nothing is deleted
InitUpsert ==
    /\ ExecAtRest
    /\ ClassifierAtRest
    /\ script = <<>>
    /\ connRun = NoRun
    /\ connection_config = TestConfig
    /\ variant \in {"server", "kg"}
    /\ tables = NoTables
    /\ nextId = [entities |-> 1, relationships |-> 1, properties |-> 1]
    /\ clock = MaxClock + 1
    /\ on_delete = "restrict"
    /\ call = NoGraphCall
    /\ before = NoTables
    /\ loop = NoLoop

NextUpsert ==
    \/ GToolAddEntity
    \/ GAddRelationship
    \/ GAddProperty
    \/ GUpdateProperties
    \/ GKgAddEntity
    \/ GKgAddRelationship
    \/ GKgUpdateProperties

SpecUpsert == InitUpsert /\ [][NextUpsert]_vars

\* an empty database, for the methods on properties; nothing is deleted
InitProperties ==
    /\ ExecAtRest
    /\ ClassifierAtRest
    /\ script = <<>>
    /\ connRun = NoRun
    /\ connection_config = TestConfig
    /\ variant \in {"server", "postgres"}
    /\ tables = NoTables
    /\ nextId = [entities |-> 1, relationships |-> 1, properties |-> 1]
    /\ clock = MaxClock + 1
    /\ on_delete = "restrict"
    /\ call = NoGraphCall
    /\ before = NoTables
    /\ loop = NoLoop

NextProperties ==
    \/ GAddEntity
    \/ GAddRelationship
    \/ GAddProperty
    \/ GGetProperties
    \/ GUpdateProperty
    \/ GPostgresAddProperty

SpecProperties == InitProperties /\ [][NextProperties]_vars

\* C20: add_entity returns an entity with the type and name given and
\* created_at = last_updated; a get_entity that follows it, by the id returned
\* or by the type and name given, returns that same entity.
C20_AddThenGetReturnsTheEntity ==
    [][(call'.op = "add_entity" /\ call'.result = "ok" =>
           /\ Cardinality(call'.rows) = 1
           /\ \A e \in call'.rows :
                 /\ e.type = call'.type /\ e.name = call'.name
                 /\ e.created_at = e.last_updated
                 /\ e \in tables'.entities
                 /\ ~\E o \in tables.entities : o.id = e.id)
       /\ ((/\ call.op = "add_entity" /\ call.result = "ok"
            /\ call'.op = "get_entity"
            /\ \/ call'.id \in {e.id : e \in call.rows}
               \/ call'.id = Null /\ call'.type = call.type
                                  /\ call'.name = call.name)
           => call'.result = "ok" /\ call'.rows = call.rows)]_vars

\* get_entity by type and name returns the entity that the add_entity just
\* before it returned, while another entity exists
C20_Witness ==
    /\ call.op = "get_entity" /\ call.id = Null
    /\ call.result = "ok"
    /\ \E e \in call.rows : e.id = nextId.entities - 1 /\ e.id = 2
    /\ Cardinality(tables.entities) = 2

\* C19: update_entity on an existing id returns the entity with a greater
\* last_updated, the fields passed changed, id, created_at and the field not
\* passed as they were, and stores it; no other row changes. On an unknown
\* id it returns None and changes nothing.
C19_UpdateEntityBumpsLastUpdated ==
    [][(call'.op = "update_entity" /\ call'.result = "ok") =>
          LET old == {e \in tables.entities : e.id = call'.id}
          IN  /\ old = {} => call'.rows = {} /\ tables' = tables
              /\ \A o \in old :
                    /\ Cardinality(call'.rows) = 1
                    /\ \A e \in call'.rows :
                          /\ e.id = o.id
                          /\ e.created_at = o.created_at
                          /\ e.last_updated > o.last_updated
                          /\ e.type = IF call'.type = NoneStr THEN o.type
                                      ELSE call'.type
                          /\ e.name = IF call'.name = NoneStr THEN o.name
                                      ELSE call'.name
                    /\ tables' = [tables EXCEPT
                                     !.entities = (@ \ old) \cup call'.rows]]_vars

\* an entity updated twice: the name alone, then the type alone
C19_Witness ==
    /\ call.op = "update_entity" /\ call.result = "ok"
    /\ call.name = NoneStr /\ call.type = "place"
    /\ \E e \in call.rows :
          e.name = "Bob" /\ e.last_updated > e.created_at + 1

\* update_entity on an id that no entity has
C19_WitnessUnknown ==
    /\ call.op = "update_entity" /\ call.result = "ok"
    /\ call.rows = {} /\ tables.entities # {}

\* the last call was a delete_entity that returned successfully: the method
\* returned True, the tool returned its success message
DeleteEntityReturned ==
    /\ call.op \in {"delete_entity", "tool:delete_entity"}
    /\ call.result = "ok" /\ call.flag

\* the relationships that the entity of the last call was source or target of
Touching == {r \in before.relationships : call.id \in {r.source_id, r.target_id}}

\* C11: after delete_entity(id) returns successfully the entity is gone, none
\* of its properties exists, no relationship with it as source or target
\* exists, no property of such a relationship exists, and get_entity(id)
\* reports not-found.
C11_DeleteEntityLeavesNothingBehind ==
    DeleteEntityReturned =>
       /\ ~\E e \in tables.entities : e.id = call.id
       /\ ~\E p \in tables.properties : p.entity_id = call.id
       /\ ~\E r \in tables.relationships :
             call.id \in {r.source_id, r.target_id}
       /\ ~\E p \in tables.properties, r \in Touching :
             p.relationship_id = r.id
       /\ SGetEntity(Graph, call.id, NoneStr, NoneStr, {}).result = "ok"

\* delete_entity of server.py returned True for an entity that had a property
\* and a relationship with a property
C11_Witness ==
    /\ DeleteEntityReturned /\ variant = "server"
    /\ \E e \in before.entities : e.id = call.id
    /\ \E p \in before.properties : p.entity_id = call.id
    /\ \E p \in before.properties, r \in Touching : p.relationship_id = r.id

\* delete_entity of kg/tools returned for an entity that had a property and
\* a relationship with a property
C11_WitnessKg ==
    /\ DeleteEntityReturned /\ variant = "kg"
    /\ \E e \in before.entities : e.id = call.id
    /\ \E p \in before.properties : p.entity_id = call.id
    /\ \E p \in before.properties, r \in Touching : p.relationship_id = r.id

\* the last call was a delete_relationship that returned successfully
DeleteRelationshipReturned ==
    /\ call.op \in {"delete_relationship", "tool:delete_relationship"}
    /\ call.result = "ok" /\ call.flag

\* C12: after delete_relationship(id) returns successfully the relationship
\* is gone and no property owned by it remains; the entities and the
\* properties that entities own are unchanged (and so is every other
\* relationship and its properties).
C12_DeleteRelationshipTakesItsProperties ==
    DeleteRelationshipReturned =>
       /\ ~\E r \in tables.relationships : r.id = call.id
       /\ ~\E p \in tables.properties : p.relationship_id = call.id
       /\ tables.entities = before.entities
       /\ tables.relationships = {r \in before.relationships : r.id # call.id}
       /\ tables.properties =
             {p \in before.properties : p.relationship_id # call.id}

\* delete_relationship of server.py returned True for a relationship that had
\* a property, between entities of which one had a property
C12_Witness ==
    /\ DeleteRelationshipReturned /\ variant = "server"
    /\ \E r \in before.relationships, p \in before.properties :
          r.id = call.id /\ p.relationship_id = r.id
    /\ \E p \in tables.properties : p.entity_id = call.id

\* delete_relationship of kg/tools returned for such a relationship
C12_WitnessKg ==
    /\ DeleteRelationshipReturned /\ variant = "kg"
    /\ \E r \in before.relationships, p \in before.properties :
          r.id = call.id /\ p.relationship_id = r.id
    /\ \E p \in tables.properties : p.entity_id = call.id

\* the table that a delete call of server.py deletes from
DeletesFrom ==
    CASE call.op \in {"delete_entity", "tool:delete_entity"} -> "entities"
      [] call.op \in {"delete_relationship", "tool:delete_relationship"} ->
            "relationships"
      [] OTHER -> "properties"

\* the last call found a row with the id it was given
Existed == \E r \in before[DeletesFrom] : r.id = call.id

\* C13: delete_entity, delete_relationship and delete_property of server.py
\* return True exactly when a row with the id existed before the call and was
\* deleted, and False when the id was not found; the delete tools of
\* server.py report 'not found' for an id that no row had.
C13_DeleteReportsWhetherTheRowExisted ==
    /\ (/\ variant = "server" /\ call.result = "ok"
        /\ call.op \in {"delete_entity", "delete_relationship",
                        "delete_property"})
       => (call.flag <=> Existed)
    /\ (/\ variant = "server" /\ ~Existed
        /\ call.op \in {"tool:delete_entity", "tool:delete_relationship"})
       => /\ call.result = "ValueError"
          /\ call.message \in {"Entity with ID not found",
                               "Relationship with ID not found"}

\* delete_entity(2) of server.py on an empty database returned True
C13_Witness ==
    /\ variant = "server" /\ call.op = "delete_entity" /\ call.id = 2
    /\ before = NoTables /\ nextId.entities = 1
    /\ call.result = "ok" /\ call.flag

\* the properties in t of the owner that the call c names, with the key
OwnedBy(t, c, key) ==
    {p \in t.properties :
        /\ p.key = key
        /\ IF c.entity_id # Null THEN p.entity_id = c.entity_id
           ELSE p.relationship_id = c.relationship_id}

\* the call c is an update_properties that returned successfully
Upserted(c) == c.op = "tool:update_properties" /\ c.result = "ok"

\* two successful update_properties calls in a row, same owner, same map
UpsertedTwice ==
    /\ Upserted(call) /\ Upserted(call')
    /\ call'.entity_id = call.entity_id
    /\ call'.relationship_id = call.relationship_id
    /\ call'.properties = call.properties

\* the last call found a property of the owner holding the value of its
\* map, for every key as get_properties looks for it ("" is every key): so
\* does a call that follows a successful call with the same map
AlreadyApplied ==
    \A i \in 1..Len(call.properties) :
       \E p \in before.properties :
          /\ p.value = call.properties[i][2]
          /\ \/ p \in OwnedBy(before, call, call.properties[i][1])
             \/ /\ call.properties[i][1] = ""
                /\ p \in OwnedBy(before, call, p.key)

\* C14: update_properties called twice with the same owner and the same map
\* leaves exactly one property per key of the map, holding the map's value,
\* and the second call inserts no row.
C14_TwiceLeavesOnePropertyPerKey ==
    [][UpsertedTwice =>
          /\ nextId' = nextId
          /\ \A i \in 1..Len(call.properties) :
                /\ Cardinality(OwnedBy(tables', call,
                                       call.properties[i][1])) = 1
                /\ \A p \in OwnedBy(tables', call, call.properties[i][1]) :
                      p.value = call.properties[i][2]]_vars

\* update_properties of server.py returned successfully for the map
\* {"": "31"}, twice: no property has the key "", and the call before
\* overwrote the value of a property with another key
C14_Witness ==
    /\ variant = "server" /\ Upserted(call)
    /\ call.properties = << <<"", "31">> >>
    /\ AlreadyApplied
    /\ OwnedBy(tables, call, "") = {}
    /\ \E p \in tables.properties :
          p.entity_id = call.entity_id /\ p.key = "age" /\ p.value = "31"

\* update_properties of server.py returned successfully for the map
\* {"age": "31"}, of which the owner still has two properties
C14_WitnessDuplicates ==
    /\ variant = "server" /\ Upserted(call)
    /\ call.properties = << <<"age", "31">> >>
    /\ Cardinality(OwnedBy(tables, call, "age")) = 2
    /\ \E p \in OwnedBy(tables, call, "age") : p.value = "30"

\* the messages that say that the owner was not found
NotFoundMessages ==
    {"Entity with ID not found", "Entity not found", "Relationship not found"}

\* the messages of the check that exactly one owner is given
OwnerMessages ==
    {"Must provide either entity_id or relationship_id",
     "Cannot provide both entity_id and relationship_id"}

\* the one owner that the last call names is a row that the call found
OwnerResolves ==
    IF call.entity_id # Null
    THEN \E e \in before.entities : e.id = call.entity_id
    ELSE \E r \in before.relationships : r.id = call.relationship_id

\* C15: update_properties fails with a 'not found' error and writes no
\* property when the entity_id or relationship_id given does not resolve to
\* an existing owner, and fails with a validation error when both or neither
\* of them is given.
C15_UpdatePropertiesValidatesOwner ==
    call.op = "tool:update_properties" =>
       IF (call.entity_id = Null) = (call.relationship_id = Null)
       THEN /\ call.result = "ValueError"
            /\ call.message \in OwnerMessages
            /\ tables = before
       ELSE ~OwnerResolves =>
               /\ call.result = "ValueError"
               /\ call.message \in NotFoundMessages
               /\ tables = before

\* update_properties of server.py returned successfully for a relationship
\* that does not exist
C15_Witness ==
    /\ variant = "server" /\ Upserted(call)
    /\ call.entity_id = Null /\ call.relationship_id = 1
    /\ before.relationships = {}

\* update_properties of kg/tools, given both ids, wrote a property
C15_WitnessKg ==
    /\ variant = "kg" /\ Upserted(call)
    /\ call.entity_id # Null /\ call.relationship_id # Null
    /\ tables.properties # before.properties

\* update_properties of server.py failed for a relationship that does not
\* exist, with the message of the refused INSERT
C15_WitnessMessage ==
    /\ variant = "server" /\ call.op = "tool:update_properties"
    /\ call.entity_id = Null /\ call.relationship_id = 1
    /\ before.relationships = {}
    /\ call.result = "ValueError" /\ call.message = "Failed to add property"

\* the last call was an add_relationship with both ids given
AddRelationshipCalled ==
    /\ call.op \in {"add_relationship", "tool:add_relationship"}
    /\ call.source_id # Null /\ call.target_id # Null

\* the source or the target of the last call was no entity when it was made
Missing ==
    \E id \in {call.source_id, call.target_id} :
       ~\E e \in before.entities : e.id = id

\* C16: add_relationship checks before inserting that source_id and target_id
\* both resolve to existing entities; when either is missing it fails with
\* 'Both source and target entities must exist' and inserts neither a
\* relationship nor a property.
C16_AddRelationshipChecksBothEntities ==
    AddRelationshipCalled /\ Missing =>
       /\ call.result \in Failures
       /\ call.message = "Both source and target entities must exist"
       /\ tables = before

\* add_relationship of server.py, the target missing, failed with the message
\* of the refused INSERT
C16_Witness ==
    /\ variant = "server" /\ AddRelationshipCalled
    /\ call.source_id = 1 /\ call.target_id = 2
    /\ \E e \in before.entities : e.id = 1
    /\ Missing
    /\ call.result = "RuntimeError"
    /\ call.message = "Failed to add relationship"
    /\ tables = before

\* add_relationship of kg/tools, the target missing, failed with the message
\* of its check
C16_WitnessKg ==
    /\ variant = "kg" /\ AddRelationshipCalled
    /\ \E e \in before.entities : e.id = call.source_id
    /\ Missing
    /\ call.message = "Both source and target entities must exist"

\* what holds of both: no relationship and no property is inserted when the
\* source or the target is missing, and kg/tools says so by its check
C16_NothingInsertedWhenMissing ==
    AddRelationshipCalled /\ Missing =>
       /\ call.result \in Failures
       /\ tables = before
       /\ variant = "kg" =>
             call.message = "Both source and target entities must exist"

\* the id was given to the last call: it is not None
Given(id) == id # Null

\* the last call was an add_property with a key and a value that are valid
AddPropertyCalled ==
    /\ call.op = "add_property"
    /\ ~IsBlank(call.key) /\ call.value # NoneStr

\* the properties that the last call added
Added == tables.properties \ before.properties

\* what C17 says of the last call
OwnerIsValidated ==
    AddPropertyCalled =>
       IF Given(call.entity_id) = Given(call.relationship_id)
       THEN /\ call.result = "ValueError"
            /\ call.message \in OwnerMessages
            /\ tables = before
       ELSE OwnerResolves =>
               /\ call.result = "ok"
               /\ Cardinality(Added) = 1
               /\ call.rows = Added
               /\ \A p \in Added :
                     /\ p.entity_id = call.entity_id
                     /\ p.relationship_id = call.relationship_id
                     /\ p.key = call.key /\ p.value = call.value

\* C17: add_property fails with a validation error and stores nothing when
\* both entity_id and relationship_id are given or when neither is given;
\* when exactly one is given, the other inputs being valid, it succeeds and
\* stores one property owned by that id.
C17_AddPropertyValidatesOwner == OwnerIsValidated

\* add_property of postgres.py, given entity_id = 0 and relationship_id = 1,
\* failed with the error of the refused INSERT
C17_Witness ==
    /\ variant = "postgres" /\ AddPropertyCalled
    /\ call.entity_id = Zero /\ call.relationship_id = 1
    /\ call.result = "RuntimeError"
    /\ call.message = "Failed to add property"

\* add_property of server.py does what C17 says, for an entity and for a
\* relationship as owner
C17_HoldsOfServer == variant = "server" => OwnerIsValidated

\* add_property of server.py stored a property of a relationship
C17_WitnessServer ==
    /\ variant = "server" /\ AddPropertyCalled /\ call.result = "ok"
    /\ call.relationship_id = 1 /\ Cardinality(Added) = 1

\* exactly one of entity_id and relationship_id is set
OneOwner(p) == (p.entity_id = Null) # (p.relationship_id = Null)

\* C18: every property stored, and every Property record that add_property,
\* get_properties and update_property return, has exactly one of entity_id
\* and relationship_id set, also when a relationship owns it.
C18_EveryPropertyHasOneOwner ==
    /\ \A p \in tables.properties : OneOwner(p)
    /\ (/\ call.op \in {"add_property", "get_properties", "update_property"}
        /\ call.result = "ok")
       => \A p \in call.rows : OneOwner(p)

\* get_properties of server.py returned the property of a relationship in a
\* record that names no owner
C18_Witness ==
    /\ variant = "server" /\ call.op = "get_properties"
    /\ call.relationship_id = 1 /\ call.result = "ok"
    /\ \E p \in call.rows : p.entity_id = Null /\ p.relationship_id = Null
    /\ \E p \in tables.properties : p.relationship_id = 1

\* update_property of server.py returned such a record
C18_WitnessUpdate ==
    /\ variant = "server" /\ call.op = "update_property"
    /\ call.result = "ok"
    /\ \E p \in call.rows : p.entity_id = Null /\ p.relationship_id = Null

\* what holds: the properties stored, and the records that add_property
\* returns, have exactly one owner
C18_StoredPropertiesHaveOneOwner ==
    /\ \A p \in tables.properties : OneOwner(p)
    /\ call.op = "add_property" /\ call.result = "ok" =>
          \A p \in call.rows : OneOwner(p)

-----------------------------------------------------------------------------
(* The relationships of an entity: get_entity_relationships of server.py.  *)
(* The rows of a result with ORDER BY are a sequence.                      *)

MaxLinks == 2

\* ORDER BY <column>: the rows in every order that the column allows
RECURSIVE OrderedBy(_, _)
OrderedBy(rows, column) ==
    IF rows = {} THEN {<<>>}
    ELSE UNION {{<<r>> \o s : s \in OrderedBy(rows \ {r}, column)} :
                  r \in {x \in rows : \A y \in rows : x[column] <= y[column]}}

\* UPDATE relationships SET type = %s, last_updated = clock_timestamp()
\* WHERE id = %s RETURNING ...
UpdateRelationshipRow(g, id, type) ==
    LET new(r) == [r EXCEPT !.type = type, !.last_updated = g.clock]
        hit == {r \in g.tables.relationships : r.id = id}
        t == [g.tables EXCEPT
                 !.relationships = (@ \ hit) \cup {new(r) : r \in hit}]
    IN  Written(g, t, {new(r) : r \in hit})

\* PostgresDB.update_relationship, lines 566-594
SUpdateRelationship(g, relationship_id, type) ==
    IF relationship_id = Null
    THEN Fail(g, "ValueError", "Relationship ID is required")
    ELSE IF IsBlank(type)
    THEN Fail(g, "ValueError", "Relationship type cannot be empty")
    ELSE LET x == UpdateRelationshipRow(g, relationship_id, type)
         IN  IF x.exc # ""
             THEN Fail(x.g, "RuntimeError", "Failed to update relationship")
             ELSE Ok(x.g, x.rows, FALSE)

\* SELECT r.id, r.source_id, ..., s.id as source_id, ..., t.id as target_id,
\* ... FROM relationships r JOIN entities s ON r.source_id = s.id
\* JOIN entities t ON r.target_id = t.id WHERE <where>: the rows as the
\* dicts that execute_query makes of them, in which the later of two columns
\* of one name stays (source_id is s.id, target_id is t.id)
JoinedRows(g, where(_)) ==
    {[id |-> r.id, source_id |-> s.id, target_id |-> t.id, type |-> r.type,
      created_at |-> r.created_at, last_updated |-> r.last_updated,
      source_type |-> s.type, source_name |-> s.name,
      source_created_at |-> s.created_at,
      source_last_updated |-> s.last_updated,
      target_type |-> t.type, target_name |-> t.name,
      target_created_at |-> t.created_at,
      target_last_updated |-> t.last_updated] :
        <<r, s, t>> \in {x \in g.tables.relationships \X g.tables.entities
                                  \X g.tables.entities :
                            /\ x[1].source_id = x[2].id
                            /\ x[1].target_id = x[3].id
                            /\ where(x[1])}}

\* (Relationship(...), Entity(...), Entity(...)) for a row, lines 739-761
RelationshipWithEntities(row) ==
    <<[id |-> row.id, source_id |-> row.source_id,
       target_id |-> row.target_id, type |-> row.type,
       created_at |-> row.created_at, last_updated |-> row.last_updated],
      [id |-> row.source_id, type |-> row.source_type,
       name |-> row.source_name, created_at |-> row.source_created_at,
       last_updated |-> row.source_last_updated],
      [id |-> row.target_id, type |-> row.target_type,
       name |-> row.target_name, created_at |-> row.target_created_at,
       last_updated |-> row.target_last_updated]>>

\* A plausible slip: the two directions are taken for each other.
SGetEntityRelationshipsSwapped(g, entity_id, include_incoming, include_outgoing, type) ==
    IF entity_id = Null THEN {Fail(g, "ValueError", "Entity ID is required")}
    ELSE IF ~include_incoming /\ ~include_outgoing
    THEN {Fail(g, "ValueError",
               "Must include at least one relationship direction")}
    ELSE LET where(r) ==
                 /\ \/ include_incoming /\ r.source_id = entity_id
                    \/ include_outgoing /\ r.target_id = entity_id
                 /\ type # NoneStr => r.type = type
         IN  {Ok(g, [i \in DOMAIN rows |-> RelationshipWithEntities(rows[i])],
                 FALSE) :
                rows \in OrderedBy(JoinedRows(g, where), "created_at")}

\* PostgresDB.get_entity_relationships, lines 691-764: the lists it can
\* return, one for each order that ORDER BY r.created_at allows
SGetEntityRelationships(g, entity_id, include_incoming, include_outgoing, type) ==
    IF entity_id = Null THEN {Fail(g, "ValueError", "Entity ID is required")}
    ELSE IF ~include_incoming /\ ~include_outgoing
    THEN {Fail(g, "ValueError",
               "Must include at least one relationship direction")}
    ELSE LET where(r) ==
                 /\ \/ include_outgoing /\ r.source_id = entity_id
                    \/ include_incoming /\ r.target_id = entity_id
                 /\ type # NoneStr => r.type = type
         IN  {Ok(g, [i \in DOMAIN rows |-> RelationshipWithEntities(rows[i])],
                 FALSE) :
                rows \in OrderedBy(JoinedRows(g, where), "created_at")}

\* the call is taken when the sequences stay within the bounds of the model
Linked(r, record) ==
    /\ r.g.nextId.entities <= MaxEntities + 1
    /\ r.g.nextId.relationships <= MaxLinks + 1
    /\ Returns(r, record)

GLinkTypes == {"knows", "likes"}

\* db.add_relationship(source_id, target_id, type), with room for MaxLinks
GLinkEntities ==
    /\ variant = "server"
    /\ CanUpdate
    /\ \E source_id \in GIds, target_id \in GIds, type \in GLinkTypes :
          Linked(SAddRelationship(Graph, source_id, target_id, type),
                 [NoGraphCall EXCEPT !.op = "add_relationship",
                                     !.source_id = source_id,
                                     !.target_id = target_id,
                                     !.type = type])

\* db.update_relationship(relationship_id, type)
GUpdateRelationship ==
    /\ variant = "server"
    /\ CanUpdate
    /\ \E id \in {1, Null}, type \in {"likes", ""} :
          Linked(SUpdateRelationship(Graph, id, type),
                 [NoGraphCall EXCEPT !.op = "update_relationship",
                                     !.id = id, !.type = type])

\* db.get_entity_relationships(entity_id, include_incoming,
\* include_outgoing, type)
GGetEntityRelationships ==
    /\ variant = "server"
    /\ \E id \in GIds \cup {Null}, include_incoming \in BOOLEAN,
          include_outgoing \in BOOLEAN, type \in GLinkTypes \cup {NoneStr} :
          \E r \in SGetEntityRelationships(Graph, id, include_incoming,
                                           include_outgoing, type) :
             Linked(r, [NoGraphCall EXCEPT
                           !.op = "get_entity_relationships", !.id = id,
                           !.include_incoming = include_incoming,
                           !.include_outgoing = include_outgoing,
                           !.type = type])

\* an empty database; the clock tells the times of MaxClock + 1 writes apart
InitLinks ==
    /\ ExecAtRest
    /\ ClassifierAtRest
    /\ script = <<>>
    /\ connRun = NoRun
    /\ connection_config = TestConfig
    /\ variant = "server"
    /\ tables = NoTables
    /\ nextId = [entities |-> 1, relationships |-> 1, properties |-> 1]
    /\ clock = 0
    /\ on_delete = "restrict"
    /\ call = NoGraphCall
    /\ before = NoTables
    /\ loop = NoLoop

NextLinks ==
    \/ GAddEntity
    \/ GLinkEntities
    \/ GUpdateRelationship
    \/ GGetEntityRelationships

SpecLinks == InitLinks /\ [][NextLinks]_vars

\* the relationships that the call asks for
Wanted ==
    {r \in tables.relationships :
        /\ \/ call.include_outgoing /\ r.source_id = call.id
           \/ call.include_incoming /\ r.target_id = call.id
        /\ call.type # NoneStr => r.type = call.type}

\* C21: get_entity_relationships of an entity id raises "Must include at
\* least one relationship direction" when both flags are false; otherwise it
\* returns each relationship that has the id as source (outgoing asked) or as
\* target (incoming asked) and has the type given, if one is given, once, with
\* its source entity and its target entity, the earlier created first.
C21_RelationshipsOfAnEntity ==
    (call.op = "get_entity_relationships" /\ call.id # Null) =>
        IF ~call.include_incoming /\ ~call.include_outgoing
        THEN /\ call.result = "ValueError"
             /\ call.message =
                   "Must include at least one relationship direction"
        ELSE /\ call.result = "ok"
             /\ Len(call.rows) = Cardinality(Wanted)
             /\ {call.rows[i][1] : i \in DOMAIN call.rows} = Wanted
             /\ \A i \in DOMAIN call.rows :
                   /\ call.rows[i][2] \in tables.entities
                   /\ call.rows[i][2].id = call.rows[i][1].source_id
                   /\ call.rows[i][3] \in tables.entities
                   /\ call.rows[i][3].id = call.rows[i][1].target_id
             /\ \A i \in DOMAIN call.rows, j \in DOMAIN call.rows :
                   i < j => /\ call.rows[i][1].id < call.rows[j][1].id
                            /\ call.rows[i][1].created_at
                                  < call.rows[j][1].created_at

\* both directions and one type asked for, of an entity with an outgoing
\* relationship created before an incoming one and given that type since
C21_Witness ==
    /\ call.op = "get_entity_relationships" /\ call.result = "ok"
    /\ call.include_incoming /\ call.include_outgoing
    /\ call.type = "likes"
    /\ Len(call.rows) = 2
    /\ call.rows[1][1].last_updated > call.rows[2][1].created_at
    /\ call.rows[1][1].source_id = call.id
    /\ call.rows[1][1].target_id # call.id
    /\ call.rows[2][1].target_id = call.id

\* incoming relationships alone asked for, of an entity that has an outgoing
\* relationship as well
C21_WitnessIncoming ==
    /\ call.op = "get_entity_relationships" /\ call.result = "ok"
    /\ call.include_incoming /\ ~call.include_outgoing
    /\ Len(call.rows) = 1
    /\ Cardinality(tables.relationships) = 2

\* both flags false
C21_WitnessNoDirection ==
    /\ call.op = "get_entity_relationships" /\ call.id # Null
    /\ ~call.include_incoming /\ ~call.include_outgoing
    /\ call.result = "ValueError"
    /\ tables.relationships # {}

-----------------------------------------------------------------------------
(* The kinds of failure that execute_query of server.py reports.           *)

\* the last call failed with ValueError("Query error: ...")
QueryError == last.result = "ValueError" /\ last.message = "Query error"

\* C22: an execute_query whose statement the backend rejects for its syntax
\* fails with a query error; one during which the connection is lost
\* (OperationalError) fails with ConnectionError and not with a query error;
\* one that fails otherwise, the connection being there, fails with
\* RuntimeError.
C22_FailuresAreToldApart ==
    (last.op = "execute_query" /\ PassedChecks) =>
        /\ (last.sent = 1 /\ last.fault = "none" /\ last.stmt = "INVALID")
              => QueryError
        /\ last.fault = "lost"
              => last.result = "ConnectionError" /\ ~QueryError
        /\ (/\ last.result # "ok"
            /\ last.fault = "none"
            /\ last.stmt # "INVALID"
            /\ last.wasClosed => last.connected)
              => last.result = "RuntimeError"

\* the connection was lost while a valid statement ran, and the call failed
\* with "Query error"
C22_Witness ==
    /\ last.op = "execute_query"
    /\ last.stmt = "SELECT_ONE"
    /\ last.sent = 1 /\ last.fault = "lost"
    /\ QueryError

\* What holds of server.py: a syntax error and a lost connection are both
\* reported as ValueError "Query error", every other failure of a call that
\* passed the checks as RuntimeError "Unexpected database error".
C22_LostConnectionIsAQueryError ==
    (last.op = "execute_query" /\ PassedChecks /\ last.result # "ok") =>
        IF last.sent = 1 /\ (last.fault = "lost" \/ last.stmt = "INVALID")
        THEN QueryError
        ELSE /\ last.result = "RuntimeError"
             /\ last.message = "Unexpected database error"

\* a syntax error reported as a query error
C22_WitnessSyntax ==
    /\ last.op = "execute_query"
    /\ last.stmt = "INVALID" /\ last.sent = 1 /\ last.fault = "none"
    /\ QueryError

-----------------------------------------------------------------------------
(* PostgresDB.execute_query of postgres.py, on an instance of its own.     *)

\* the except clauses of lines 161-170, in their order. select.error is
\* OSError, and the ConnectionError that _init_database raises is an OSError.
\* QueryCanceled is the OperationalError whose text names the statement
\* timeout (lines 166-167).
PHandleError(exc) ==
    CASE exc = "ConnectionError" ->
             [result |-> "TimeoutError", message |-> "Query execution timed out"]
      [] exc = "QueryCanceled" ->
             [result |-> "TimeoutError", message |-> "Query execution timed out"]
      [] exc = "ProgrammingError" ->
             [result |-> "ValueError", message |-> "Invalid query or parameters"]
      [] exc = "OperationalError" ->
             [result |-> "ConnectionError",
              message |-> "Database connection error"]
      [] OTHER ->
             [result |-> "RuntimeError", message |-> "Unexpected database error"]

\* cursor.execute("SET statement_timeout = ..."), line 142: it opens the
\* transaction of the session and is refused in a failed one
SetStatementTimeout(st) ==
    IF st.txn = "INERROR"
    THEN [st |-> st, exc |-> "InFailedSqlTransaction"]
    ELSE [st |-> [st EXCEPT !.txn = "INTRANS"], exc |-> ""]

\* lines 121-170: the whole call. The reconnect of lines 136-138 is that of
\* server.py. Rows are returned without a commit, a statement without rows
\* is committed, and no handler rolls back.
PExec(st, stmt, outs, fault) ==
    LET wasClosed == st.connection = "None" \/ st.closed # 0
        base == [st |-> st, result |-> "ValueError",
                 message |-> "Query cannot be empty",
                 returned |-> "none", rows |-> {}, wasClosed |-> wasClosed,
                 connected |-> FALSE, attempts |-> 0, sent |-> 0,
                 commits |-> 0, rollbacks |-> 0, inserted |-> 0]
        failed(b, st2, exc) ==
            [b EXCEPT !.st = st2, !.result = PHandleError(exc).result,
                      !.message = PHandleError(exc).message]
    IN  IF stmt.kind \in {"EMPTY", "BLANK"} THEN base
        ELSE
          LET c == EnsureConnection(st, outs)
              b == [base EXCEPT !.attempts = c.attempts,
                                !.connected = c.connected]
          IN  IF c.raised # "" THEN failed(b, c.st, c.raised)
              ELSE
                LET t == SetStatementTimeout(c.st)
                    y == CursorExecute(t.st, stmt,
                                       IF fault = "timeout" THEN "none"
                                       ELSE fault)
                    \* the backend cancels a statement that outlasts
                    \* statement_timeout: nothing of it is applied and the
                    \* transaction it ran in is aborted
                    x == IF fault = "timeout" /\ y.exc = ""
                         THEN [st |-> [t.st EXCEPT !.txn = "INERROR"],
                               exc |-> "QueryCanceled", sent |-> 1,
                               rows |-> {}, description |-> FALSE,
                               inserted |-> 0]
                         ELSE y
                IN  IF t.exc # "" THEN failed(b, t.st, t.exc)
                    ELSE IF x.exc # ""
                    THEN failed([b EXCEPT !.sent = x.sent], x.st, x.exc)
                    ELSE [b EXCEPT
                             !.st = IF x.description THEN x.st
                                    ELSE Commit(x.st),
                             !.result = "ok", !.message = "",
                             !.returned = IF x.description THEN "rows"
                                          ELSE "None",
                             !.rows = x.rows, !.sent = x.sent,
                             !.commits = IF x.description THEN 0 ELSE 1,
                             !.inserted = x.inserted]

\* db.execute_query(query, params) of postgres.py
PExecuteQuery ==
    /\ variant = "postgres"
    /\ \E stmt \in RawStatements, outs \in ScriptsFor(Here) :
         \E fault \in FaultsFor(stmt, FALSE, outs) :
           /\ WithinBounds(stmt)
           /\ \E r \in {PExec(Here, stmt, outs, fault)} :
                  /\ Install(r.st)
                  /\ last' = CallRecord("pg_execute_query", stmt, FALSE,
                                        fault, r)
                  /\ acked' = AckedAfter(stmt, r)
                  /\ failStreak' = StreakAfter(r)
    /\ UNCHANGED <<classVars, connVars, graphVars, loop>>

\* one instance of the class of server.py or of postgres.py, its
\* execute_query, and closures of its connection from outside
InitReconnect ==
    /\ ExecAtRest
    /\ GraphAtRest
    /\ ClassifierAtRest
    /\ script = <<>>
    /\ connRun = NoRun
    /\ connection_config = TestConfig
    /\ variant \in {"server", "postgres"}

NextReconnect ==
    \/ ExecuteQuery
    \/ PExecuteQuery
    \/ CloseConnection

SpecReconnect == InitReconnect /\ [][NextReconnect]_vars

\* the last call found the connection closed and no connect attempt of its
\* reconnect succeeded
ReconnectExhausted ==
    /\ last.op \in {"execute_query", "pg_execute_query"}
    /\ PassedChecks
    /\ last.wasClosed /\ ~last.connected

\* C23: an execute_query that finds the connection closed and whose reconnect
\* fails in every attempt fails with ConnectionError, and its statement is
\* not sent.
C23_ExhaustedReconnectIsAConnectionError ==
    ReconnectExhausted =>
        /\ last.result = "ConnectionError"
        /\ last.sent = 0

\* server.py: three connect attempts failed and the call raised RuntimeError
C23_Witness ==
    /\ ReconnectExhausted
    /\ last.op = "execute_query"
    /\ last.attempts = max_retries
    /\ last.result = "RuntimeError"
    /\ last.message = "Unexpected database error"

\* postgres.py: three connect attempts failed and the call raised
\* TimeoutError
C23_WitnessPostgres ==
    /\ ReconnectExhausted
    /\ last.op = "pg_execute_query"
    /\ last.attempts = max_retries
    /\ last.result = "TimeoutError"

\* What holds: the statement is not sent and the connection stays closed;
\* server.py raises RuntimeError and postgres.py raises TimeoutError.
C23_ExhaustedReconnectSendsNothing ==
    ReconnectExhausted =>
        /\ last.sent = 0
        /\ last.attempts \in 1..max_retries
        /\ closed # 0
        /\ last.result = IF last.op = "execute_query" THEN "RuntimeError"
                         ELSE "TimeoutError"

-----------------------------------------------------------------------------
(* The errors that leave the repository methods of server.py.              *)

RepositoryMethods ==
    {"add_entity", "get_entity", "add_relationship", "add_property"}

\* execute_query raised inside the repository method of the last call
ExecutorRaised == last.op \in RepositoryMethods /\ last.raised # "none"

\* C24: an error that execute_query raises inside a repository method leaves
\* the method as an error of the same kind: ValueError as ValueError,
\* ConnectionError as ConnectionError, RuntimeError as RuntimeError.
C24_MethodsKeepTheKindOfError ==
    ExecutorRaised => last.result = last.raised

\* execute_query raised ValueError "Query error" inside add_entity, and
\* add_entity raised RuntimeError "Failed to add entity"
C24_Witness ==
    /\ ExecutorRaised
    /\ last.op = "add_entity"
    /\ last.raised = "ValueError"
    /\ last.result = "RuntimeError"
    /\ last.message = "Failed to add entity"

\* What holds: whatever execute_query raises leaves the method as
\* RuntimeError; ValueError leaves a method only for its own checks of the
\* arguments, made before execute_query is called.
C24_EveryExecutorErrorBecomesRuntimeError ==
    /\ ExecutorRaised => last.result = "RuntimeError"
    /\ (last.op \in RepositoryMethods /\ last.result = "ValueError")
          => last.sent = 0 /\ last.attempts = 0

\* a RuntimeError of execute_query, the refused foreign key of a property
\* of an entity that does not exist, leaves add_property as RuntimeError
C24_WitnessRuntimeError ==
    /\ ExecutorRaised
    /\ last.op = "add_property"
    /\ last.raised = "RuntimeError" /\ last.sent = 1 /\ last.fault = "none"
    /\ last.result = "RuntimeError"

-----------------------------------------------------------------------------
(* The context store: set_context and get_context of handlers.py, on the   *)
(* executor of postgres.py, which commits with the statement that returns  *)
(* no rows. The ids of categories are only compared for equality, and the  *)
(* gaps that refused inserts leave in their sequence are left out.         *)

MaxCategories == 2

\* context_categories(id, name UNIQUE) and context_entries(category_id, key,
\* value, UNIQUE(category_id, key)), empty, beside the tables of the graph
NoContext ==
    [entities |-> {}, relationships |-> {}, properties |-> {},
     context_categories |-> {}, context_entries |-> {}]

\* INSERT INTO context_categories (name) VALUES (%s)
\* ON CONFLICT (name) DO NOTHING RETURNING id
InsertCategory(g, name) ==
    IF \E c \in g.tables.context_categories : c.name = name
    THEN Ran(g, {})
    ELSE LET id == g.nextId.context_categories
         IN  Ran([g EXCEPT !.nextId.context_categories = id + 1,
                           !.tables.context_categories =
                               @ \cup {[id |-> id, name |-> name]}],
                 {[id |-> id]})

\* SELECT id FROM context_categories WHERE name = %s
SelectCategory(g, name) ==
    Ran(g, {[id |-> c.id] :
              c \in {x \in g.tables.context_categories : x.name = name}})

\* A plausible slip: ON CONFLICT (category_id, key) DO NOTHING.
UpsertEntryKeepsValue(g, category_id, key, value) ==
    LET hit == {e \in g.tables.context_entries :
                   e.category_id = category_id /\ e.key = key}
        row == [category_id |-> category_id, key |-> key, value |-> value]
    IN  IF hit # {} THEN Ran(g, {})
        ELSE Ran([g EXCEPT !.tables.context_entries = @ \cup {row}], {})

\* INSERT INTO context_entries (category_id, key, value) VALUES (%s, %s, %s)
\* ON CONFLICT (category_id, key) DO UPDATE SET value = EXCLUDED.value
UpsertEntry(g, category_id, key, value) ==
    LET hit == {e \in g.tables.context_entries :
                   e.category_id = category_id /\ e.key = key}
        row == [category_id |-> category_id, key |-> key, value |-> value]
    IN  Ran([g EXCEPT !.tables.context_entries = (@ \ hit) \cup {row}], {})

\* SELECT c.name as category, e.key, e.value FROM context_entries e
\* JOIN context_categories c ON e.category_id = c.id [WHERE c.name = %s]
SelectContext(g, name) ==
    Ran(g, {[category |-> x[2].name, key |-> x[1].key, value |-> x[1].value] :
              x \in {y \in g.tables.context_entries
                              \X g.tables.context_categories :
                        /\ y[1].category_id = y[2].id
                        /\ name # NoneStr => y[2].name = name}})

\* the call ends when the connection is lost: ConnectionError leaves
\* execute_query, and what the statements of the call wrote was not
\* committed
ConnectionLost(g) ==
    Fail(g, "ConnectionError", "Database connection error")

\* ToolHandlers.set_context, lines 243-270; lost is the number of the
\* execute_query call during which the connection is lost, 0 for none
HSetContext(g, category, key, value, lost) ==
    LET a == InsertCategory(g, category)
        b == IF a.rows # {} THEN a ELSE SelectCategory(a.g, category)
        c == UpsertEntry(b.g, IdOf(b.rows), key, value)
    IN  IF lost = 1 THEN ConnectionLost(g)
        ELSE IF lost = 2 /\ a.rows = {} THEN ConnectionLost(g)
        ELSE IF lost = 3 THEN ConnectionLost(g)
        ELSE Ok(c.g, {}, TRUE)

\* ToolHandlers.get_context, lines 272-288; category is NoneStr when the
\* arguments have none
HGetContext(g, category, lost) ==
    IF lost = 1 THEN ConnectionLost(g)
    ELSE Ok(SelectContext(g, category).g, SelectContext(g, category).rows,
            FALSE)

CCategories == {"user_preferences", "session"}
CKeys == {"theme", "language"}
CValues == {"dark", "light"}

\* handlers.set_context({"category": ..., "key": ..., "value": ...})
GSetContext ==
    /\ variant = "postgres"
    /\ \E category \in CCategories, key \in CKeys, value \in CValues,
          lost \in 0..3 :
          LET r == HSetContext(Graph, category, key, value, lost)
          IN  /\ r.g.nextId.context_categories <= MaxCategories + 1
              /\ Returns(r, [NoGraphCall EXCEPT !.op = "set_context",
                                                !.category = category,
                                                !.key = key,
                                                !.value = value])

\* handlers.get_context({"category": ...}) and handlers.get_context({})
GGetContext ==
    /\ variant = "postgres"
    /\ \E category \in CCategories \cup {NoneStr}, lost \in 0..1 :
          Returns(HGetContext(Graph, category, lost),
                  [NoGraphCall EXCEPT !.op = "get_context",
                                      !.category = category])

\* the context store is empty
InitContext ==
    /\ ExecAtRest
    /\ ClassifierAtRest
    /\ script = <<>>
    /\ connRun = NoRun
    /\ connection_config = TestConfig
    /\ variant = "postgres"
    /\ tables = NoContext
    /\ nextId = [entities |-> 1, relationships |-> 1, properties |-> 1,
                 context_categories |-> 1]
    /\ clock = MaxClock + 1
    /\ on_delete = "restrict"
    /\ call = NoGraphCall
    /\ before = NoContext
    /\ loop = NoLoop

NextContext ==
    \/ GSetContext
    \/ GGetContext

SpecContext == InitContext /\ [][NextContext]_vars

\* the entries of tables t as get_context gives them
Entries(t) ==
    {[category |-> x[2].name, key |-> x[1].key, value |-> x[1].value] :
        x \in {y \in t.context_entries \X t.context_categories :
                  y[1].category_id = y[2].id}}

\* C25: there is one category row per name and one entry per category and
\* key; a set_context that returns leaves one category row of its name, the
\* entry of its category and key with its value, and every other entry and
\* category as it was; get_context of a category returns the entries of that
\* category and no other.
C25_ContextIsSetPerCategoryAndKey ==
    /\ \A a \in tables.context_categories, b \in tables.context_categories :
          a.name = b.name => a = b
    /\ \A a \in tables.context_entries, b \in tables.context_entries :
          (a.category_id = b.category_id /\ a.key = b.key) => a = b
    /\ \A e \in tables.context_entries :
          \E c \in tables.context_categories : c.id = e.category_id
    /\ (call.op = "set_context" /\ call.result = "ok") =>
          /\ Cardinality({c \in tables.context_categories :
                             c.name = call.category}) = 1
          /\ before.context_categories \subseteq tables.context_categories
          /\ \A c \in tables.context_categories \ before.context_categories :
                c.name = call.category
          /\ Entries(tables) =
                {e \in Entries(before) :
                    e.category # call.category \/ e.key # call.key}
                \cup {[category |-> call.category, key |-> call.key,
                       value |-> call.value]}
    /\ (call.op = "get_context" /\ call.result = "ok"
            /\ call.category # NoneStr) =>
          call.rows = {e \in Entries(tables) : e.category = call.category}

\* an entry is set again with another value while its category has another
\* entry and another category has an entry of the same key
C25_Witness ==
    /\ call.op = "set_context" /\ call.result = "ok"
    /\ \E e \in Entries(before) :
          e.category = call.category /\ e.key = call.key
                                     /\ e.value # call.value
    /\ \E e \in Entries(tables) :
          e.category = call.category /\ e.key # call.key
    /\ \E e \in Entries(tables) :
          e.category # call.category /\ e.key = call.key
                                     /\ e.value # call.value

\* get_context of one category while the other has entries
C25_WitnessGet ==
    /\ call.op = "get_context" /\ call.result = "ok"
    /\ call.category = "session"
    /\ Cardinality(call.rows) = 2
    /\ Cardinality(Entries(tables)) = 3

-----------------------------------------------------------------------------
(* Tool calls gathered on one event loop: ToolHandlers.add_entity of       *)
(* handlers.py run as asyncio tasks over one shared connection, as         *)
(* test_concurrent_operations runs them, one execute_query call a step.    *)

MaxTasks == 3

\* names = [f"Person{i}" for i in range(N)]: every task has its own name
LNames == <<"Person0", "Person1", "Person2", "Person3", "Person4">>

\* the maps of properties given to the gathered calls, in the order of
\* their items
LMaps ==
    {<< <<"test", "concurrent">> >>,
     << <<"test", "concurrent">>, <<"team", "blue">> >>,
     << <<"test", "other">> >>}

\* a task that asyncio.gather has scheduled and that has not run yet: calls
\* counts the execute_query calls that it has made
NewTask(name, map) ==
    [name |-> name, map |-> map, calls |-> 0, id |-> Null, result |-> ""]

\* the next execute_query call of ToolHandlers.add_entity, lines 12-27: the
\* INSERT of the entity, then one INSERT for every item of the properties
HAddEntityCall(g, task) ==
    IF task.calls = 0 THEN InsertEntity(g, "person", task.name)
    ELSE InsertProperty(g, task.id, Null, task.map[task.calls][1],
                        task.map[task.calls][2])

\* the task after the call: an exception leaves the coroutine, the last
\* call is followed by return {"id": entity_id}
HAddEntityAfter(task, r) ==
    IF r.exc # "" THEN [task EXCEPT !.calls = @ + 1, !.result = r.exc]
    ELSE [task EXCEPT !.calls = @ + 1,
                      !.id = IF task.calls = 0 THEN IdOf(r.rows) ELSE @,
                      !.result = IF task.calls = Len(task.map) THEN "ok"
                                 ELSE ""]

\* A plausible slip: the executor is awaited, so the task is suspended at
\* every call and the loop may run another task.
HoldsLoopAwaited(i, task) == 0

\* the task that holds the loop after a step of task i: the coroutine has no
\* await between line 10 and line 29, so it runs until it has returned
HoldsLoop(i, task) == IF task.result = "" THEN i ELSE 0

\* SELECT e.*, json_object_agg(p.key, p.value) as properties FROM entities e
\* LEFT JOIN properties p ON e.id = p.entity_id WHERE EXISTS (SELECT 1 FROM
\* properties WHERE entity_id = e.id AND key = %s AND value = %s)
\* GROUP BY e.id: ToolHandlers.search_entities, lines 178-205, called with
\* {"properties": {key: value}}
HSearchEntities(g, key, value) ==
    LET of(e) == {p \in g.tables.properties : p.entity_id = e.id}
    IN  Ok(g, {[id |-> e.id, type |-> e.type, name |-> e.name,
                properties |-> {<<p.key, p.value>> : p \in of(e)}] :
                 e \in {x \in g.tables.entities :
                          \E p \in of(x) : p.key = key /\ p.value = value}},
           FALSE)

\* asyncio.gather(*[create_entity(name) for name in names])
LGather ==
    /\ variant = "postgres"
    /\ loop.tasks = <<>>
    /\ \E n \in 1..MaxTasks :
         \E maps \in [1..n -> LMaps] :
            loop' = [tasks |-> [i \in 1..n |-> NewTask(LNames[i], maps[i])],
                     running |-> 0, trace |-> <<>>]
    /\ UNCHANGED <<execVars, classVars, connVars, graphVars>>

\* the loop runs task i up to its next execute_query call
LAddEntity ==
    /\ variant = "postgres"
    /\ \E i \in 1..Len(loop.tasks) :
          /\ loop.running \in {0, i}
          /\ loop.tasks[i].result = ""
          /\ LET r == HAddEntityCall(Graph, loop.tasks[i])
                 task == HAddEntityAfter(loop.tasks[i], r)
             IN  /\ tables' = r.g.tables
                 /\ nextId' = r.g.nextId
                 /\ clock' = r.g.clock
                 /\ loop' = [tasks |-> [loop.tasks EXCEPT ![i] = task],
                             running |-> HoldsLoop(i, task),
                             trace |-> Append(loop.trace, i)]
    /\ UNCHANGED <<on_delete, call, before, execVars, classVars, connVars>>

\* handle_call_tool("search_entities", {"properties": {"test": ...}}) after
\* asyncio.gather has returned the results of the tasks
LSearchEntities ==
    /\ variant = "postgres"
    /\ loop.tasks # <<>>
    /\ \A i \in 1..Len(loop.tasks) : loop.tasks[i].result # ""
    /\ \E value \in {"concurrent", "other"} :
          Returns(HSearchEntities(Graph, "test", value),
                  [NoGraphCall EXCEPT !.op = "search_entities",
                                      !.key = "test", !.value = value])

\* clean_db: the tables are empty and nothing is gathered
InitLoop ==
    /\ ExecAtRest
    /\ ClassifierAtRest
    /\ script = <<>>
    /\ connRun = NoRun
    /\ connection_config = TestConfig
    /\ variant = "postgres"
    /\ tables = NoTables
    /\ nextId = [entities |-> 1, relationships |-> 1, properties |-> 1]
    /\ clock = MaxClock + 1
    /\ on_delete = "restrict"
    /\ call = NoGraphCall
    /\ before = NoTables
    /\ loop = NoLoop

NextLoop ==
    \/ LGather
    \/ LAddEntity
    \/ LSearchEntities

SpecLoop == InitLoop /\ [][NextLoop]_vars

\* the tasks that have returned
Returned == {i \in 1..Len(loop.tasks) : loop.tasks[i].result = "ok"}

\* the items of a map of properties
Items(map) == {map[k] : k \in 1..Len(map)}

\* the execute_query calls of one task are next to each other
Serial(trace) ==
    \A p \in 1..Len(trace), q \in 1..Len(trace), r \in 1..Len(trace) :
        p < q /\ q < r /\ trace[p] = trace[r] => trace[q] = trace[p]

\* the entity of task i: one row, of its name, with its properties
OwnEntity(i) ==
    LET task == loop.tasks[i]
    IN  /\ Cardinality({e \in tables.entities : e.name = task.name}) = 1
        /\ \E e \in tables.entities : e.id = task.id /\ e.name = task.name
        /\ {<<p.key, p.value>> : p \in {x \in tables.properties :
                                          x.entity_id = task.id}}
              = Items(task.map)
        /\ Cardinality({x \in tables.properties : x.entity_id = task.id})
              = Len(task.map)

\* every gathered call has returned and the search has followed
SearchFollowed ==
    /\ call.op = "search_entities"
    /\ loop.tasks # <<>>
    /\ Returned = 1..Len(loop.tasks)

\* C26: when N add_entity calls are gathered on one event loop over the one
\* connection, the execute_query calls of two of them never interleave,
\* every call that has returned has made exactly one entity, of an id that
\* no other call returned, with exactly its own properties, and a search
\* that follows the N calls finds the entity of every call that gave the
\* property searched for: all N when all gave it.
C26_GatheredCallsAreSerial ==
    /\ Serial(loop.trace)
    /\ \A i \in Returned : OwnEntity(i)
    /\ \A i \in Returned, j \in Returned :
          i # j => loop.tasks[i].id # loop.tasks[j].id
    /\ SearchFollowed =>
          {row.id : row \in call.rows}
             = {loop.tasks[i].id :
                  i \in {j \in Returned :
                           <<call.key, call.value>>
                              \in Items(loop.tasks[j].map)}}

\* three calls that gave the property have returned, one of them made two
\* more calls of the executor than the INSERT of its entity, and the search
\* has found three entities
C26_Witness ==
    /\ SearchFollowed
    /\ Len(loop.tasks) = MaxTasks
    /\ \E i \in Returned : Len(loop.tasks[i].map) = 2
    /\ Cardinality(call.rows) = MaxTasks
    /\ Len(loop.trace) > MaxTasks

-----------------------------------------------------------------------------
(* PostgresDB.__init__ in the three modules that define it: the check of   *)
(* the configuration, then _init_database.                                 *)

required == {"dbname", "user", "host", "port"}

\* the configurations: every parameter is left out, is '' or has a value
Configs == [required \cup {"password"} -> {Absent, "", Present}]

\* server.py lines 83-84 and kg/db.py lines 16-17:
\*   [k for k in required if not connection_config.get(k)]
\* postgres.py line 77: all(k in connection_config for k in [...])
missing(v, config) ==
    IF v = "postgres" THEN {k \in required : config[k] = Absent}
    ELSE {k \in required : config[k] \in {Absent, ""}}

\* __init__: raise ValueError for a missing parameter, else _init_database()
Construct(v, config, outs) ==
    IF missing(v, config) # {}
    THEN [done |-> TRUE, raised |-> "ValueError", attempts |-> 0,
          connected |-> FALSE]
    ELSE InitDatabase(v, outs)

\* PostgresDB(connection_config)
RunConstruct ==
    /\ ~connRun.done
    /\ connRun' = Construct(variant, connection_config, script)
    /\ UNCHANGED <<script, variant, connection_config, execVars, classVars,
                   graphVars, loop>>

InitConstruct ==
    /\ script \in Scripts
    /\ variant \in {"server", "postgres", "kg"}
    /\ connRun = NoRun
    /\ connection_config \in Configs
    /\ ExecAtRest
    /\ tables = NoTables
    /\ nextId = [entities |-> 1, relationships |-> 1, properties |-> 1]
    /\ clock = 1
    /\ on_delete = "cascade"
    /\ call = NoGraphCall
    /\ before = NoTables
    /\ loop = NoLoop
    /\ ClassifierAtRest

NextConstruct == RunConstruct

SpecConstruct == InitConstruct /\ [][NextConstruct]_vars

\* a required parameter is missing or empty
Incomplete(config) == \E k \in required : config[k] \in {Absent, ""}

\* C27: a configuration in which dbname, user, host or port is missing or
\* empty makes the constructor fail with ValueError after zero connect
\* attempts, and no other configuration does, whatever its password is.
C27_IncompleteConfigurationNeverConnects ==
    connRun.done =>
        IF Incomplete(connection_config)
        THEN connRun.raised = "ValueError" /\ connRun.attempts = 0
        ELSE connRun.raised # "ValueError" /\ connRun.attempts > 0

\* postgres.py has connected with a configuration whose dbname is ''
C27_Witness ==
    /\ variant = "postgres"
    /\ connRun.done
    /\ connection_config.dbname = ""
    /\ connRun.attempts > 0
    /\ connRun.connected

\* What holds in the three modules: a configuration that leaves out a
\* required parameter, and in server.py and kg/db.py one that gives '' for
\* it, fails with ValueError after zero connect attempts; a configuration
\* with the four parameters is never refused for its password.
C27_MissingParameterNeverConnects ==
    connRun.done =>
        /\ (\/ \E k \in required : connection_config[k] = Absent
            \/ variant # "postgres" /\ Incomplete(connection_config))
              => connRun.raised = "ValueError" /\ connRun.attempts = 0
        /\ ~Incomplete(connection_config)
              => connRun.raised # "ValueError" /\ connRun.attempts > 0

\* server.py has refused a configuration whose port is '', and nothing was
\* tried although the backend would have answered
C27_WitnessRefused ==
    /\ variant = "server"
    /\ connRun.done
    /\ connection_config.port = ""
    /\ connection_config.password = Absent
    /\ connRun.raised = "ValueError"
    /\ script[1] = "ok"

-----------------------------------------------------------------------------
(* The transaction that the connection of server.py holds between the      *)
(* calls of the executor.                                                  *)

\* the last call sent a statement that is_read_only_query took for a write
SentWrite ==
    /\ last.sent = 1
    /\ last.stmt \in StatementKinds
    /\ ~ReadOnlyOf[last.stmt]

\* C28 (as stated): between the calls of the executor the connection holds
\* no write that is not committed, so that the rollback of a later failure
\* has only reads to discard: the tables that the session sees are the
\* committed ones.
C28_NoUncommittedWriteBetweenCalls ==
    working = committed

\* a statement that is_read_only_query takes for read-only has written and
\* returned its rows, and what it wrote is not committed
C28_Witness ==
    /\ last.result = "ok"
    /\ last.stmt \in StatementKinds
    /\ ReadOnlyOf[last.stmt]
    /\ last.commits = 0
    /\ working.snapshot /\ ~committed.snapshot

\* What holds: a call that sent a statement not classified read-only and
\* returned has committed once, a call that sent a statement and failed on
\* an open connection has rolled back once, and after either the session
\* sees the committed tables; the rows of the three tables are never left
\* uncommitted between calls.
C28_ClassifiedWritesAreCommitted ==
    /\ SentWrite /\ last.result = "ok"
          => last.commits = 1 /\ working = committed
    /\ last.sent = 1 /\ last.result \in Failures
          => /\ last.commits = 0
             /\ working = committed
    /\ last.rollbacks = 1 => working = committed
    /\ working.entities = committed.entities
    /\ working.relationships = committed.relationships
    /\ working.properties = committed.properties

\* a write has committed, and a later call has failed and rolled back
C28_WitnessCommitted ==
    /\ last.result \in Failures
    /\ last.rollbacks = 1
    /\ last.sent = 1
    /\ committed.entities # {}

-----------------------------------------------------------------------------
(* How often one call of the executor sends its statement, in server.py    *)
(* and in kg/db.py.                                                        *)

\* the rows of w, of the three tables
RowCount(w) ==
    Cardinality(w.entities) + Cardinality(w.relationships)
        + Cardinality(w.properties)

\* the ids that the sequences have given out
Drawn(s) == s.entities + s.relationships + s.properties

\* C29: one call of execute_query sends its statement at most once, whether
\* it returns or fails and whether or not it has connected again, so the
\* call adds at most one row and draws at most one id: a write is never
\* applied twice by one call, and a call that sent nothing adds nothing.
C29_StatementSentAtMostOnce ==
    [][/\ last'.sent \in {0, 1}
       /\ last' # last =>
             /\ RowCount(working') <= RowCount(working) + last'.sent
             /\ Drawn(seqs') <= Drawn(seqs) + last'.sent
             /\ last'.inserted # 0 =>
                   Cardinality({e \in working'.entities :
                                   e.id >= seqs.entities}) = 1]_vars

\* a call found the connection closed, connected again, sent its INSERT
\* once, and failed because the connection was lost
C29_Witness ==
    /\ last.op \in {"execute_query", "kg_execute_query"}
    /\ last.stmt = "INSERT_RAW"
    /\ last.wasClosed /\ last.connected
    /\ last.fault = "lost"
    /\ last.result # "ok"
    /\ last.sent = 1

\* kg/db.py: an INSERT sent once has added its one row
C29_WitnessKg ==
    /\ last.op = "kg_execute_query"
    /\ last.stmt = "INSERT_RAW"
    /\ last.result = "ok"
    /\ last.sent = 1
    /\ last.inserted # 0

-----------------------------------------------------------------------------
(* delete_entity of server.py when one of its statements fails.            *)

\* delete_entity of server.py raised from its error handler
DeleteEntityFailed ==
    /\ variant = "server"
    /\ call.op = "delete_entity"
    /\ call.result = "RuntimeError"

\* C30: delete_entity of server.py is all-or-nothing: when one of its
\* statements fails, the rollback of its error handler leaves the tables as
\* they were before the call, and nothing that its earlier statements
\* deleted stays deleted.
C30_DeleteEntityIsAllOrNothing ==
    DeleteEntityFailed => tables = before

\* delete_entity failed at the DELETE of the relationships, the entity is
\* still there, and its properties, deleted by the first statement, are gone
C30_Witness ==
    /\ DeleteEntityFailed
    /\ \E e \in tables.entities : e.id = call.id
    /\ \E p \in before.properties : p.entity_id = call.id
    /\ ~\E p \in tables.properties : p.entity_id = call.id
    /\ tables.relationships = before.relationships

\* What holds: a delete_entity that fails deletes no entity and no
\* relationship, and of the properties only those of the entity named.
C30_FailedDeleteKeepsTheEntity ==
    DeleteEntityFailed =>
        /\ tables.entities = before.entities
        /\ tables.relationships = before.relationships
        /\ tables.properties \subseteq before.properties
        /\ \A p \in before.properties \ tables.properties :
              p.entity_id = call.id

-----------------------------------------------------------------------------
(* The references between the rows, after any sequence of the calls that   *)
(* add, update and delete them, in server.py and in kg/tools.              *)

NextIntegrity ==
    \/ NextGraph
    \/ GKgUpdateProperties

SpecIntegrity == InitGraph /\ [][NextIntegrity]_vars

-----------------------------------------------------------------------------
(* The types and names that add_entity and update_entity of server.py      *)
(* refuse.                                                                 *)

\* the strings given as type or name: a word, '' and ' '
GTexts == GTypes \cup GNames \cup {"", " "}

\* C32: update_entity raises ValueError for every type or name for which
\* add_entity raises it, the empty and the whitespace-only ones, so every
\* entity stored has a type and a name that are not blank.
C32_StoredEntitiesAreNotBlank ==
    /\ \A id \in GIds, type \in GTexts, name \in GTexts :
          SAddEntity(Graph, type, name).result = "ValueError"
             => SUpdateEntity(Graph, id, type, name).result = "ValueError"
    /\ \A e \in tables.entities : ~IsBlank(e.type) /\ ~IsBlank(e.name)

\* update_entity(id, type=" ") has returned the entity with type ' '
C32_Witness ==
    /\ call.op = "update_entity"
    /\ call.result = "ok"
    /\ call.type = " "
    /\ \E e \in call.rows : e.id = call.id /\ e.type = " "
    /\ \E e \in tables.entities : e.id = call.id /\ IsBlank(e.type)
    /\ SAddEntity(Graph, " ", "Alice").result = "ValueError"

\* What holds: add_entity stores no blank type or name, and update_entity
\* raises ValueError for the empty string, as type and as name.
C32_EmptyStringIsRefused ==
    /\ call.op = "add_entity" /\ call.result = "ok"
          => \A e \in call.rows : ~IsBlank(e.type) /\ ~IsBlank(e.name)
    /\ call.op = "update_entity" /\ call.id # Null
          /\ (call.type = "" \/ call.name = "")
          => call.result = "ValueError" /\ tables = before
    /\ \A e \in tables.entities : e.type # "" /\ e.name # ""

\* update_entity(id, name="") was refused for an entity that exists
C32_WitnessRefused ==
    /\ call.op = "update_entity"
    /\ call.name = "" /\ call.type = NoneStr
    /\ call.result = "ValueError"
    /\ call.message = "Entity name cannot be empty"
    /\ \E e \in tables.entities : e.id = call.id

-----------------------------------------------------------------------------
(* What update_properties leaves alone, in server.py and in kg/tools.      *)

\* the keys of the map given to the call c
MapKeys(c) == {c.properties[i][1] : i \in 1..Len(c.properties)}

\* the property p belongs to the owner that the call c names and has a key
\* of its map
Named(c, p) ==
    /\ p.key \in MapKeys(c)
    /\ IF c.entity_id # Null THEN p.entity_id = c.entity_id
       ELSE p.relationship_id = c.relationship_id

\* the last call wrote only properties that it names: every other property
\* is there with the value it had, and every new property is one it names
OnlyNamedWritten ==
    /\ \A p \in before.properties :
          ~Named(call, p) =>
             \E q \in tables.properties : q.id = p.id /\ q.value = p.value
    /\ \A q \in tables.properties :
          (~\E p \in before.properties : p.id = q.id) => Named(call, q)

\* C33: update_properties creates or changes only properties of its owner
\* whose key is a key of its map; every property with another key and every
\* property of another owner has the value it had, for every map, one with
\* the key "" included.
C33_UpdatePropertiesWritesOnlyItsKeys ==
    call.op = "tool:update_properties" => OnlyNamedWritten

\* update_properties of server.py, given the map {"": "31"}, has changed the
\* value of a property whose key is "age"
C33_Witness ==
    /\ variant = "server"
    /\ call.op = "tool:update_properties"
    /\ call.properties = << <<"", "31">> >>
    /\ \E p \in before.properties, q \in tables.properties :
          /\ q.id = p.id /\ p.key = "age"
          /\ p.value = "30" /\ q.value = "31"

\* What holds: update_properties of kg/tools writes only the properties it
\* names, and so does update_properties of server.py for a map without the
\* key "".
C33_WritesOnlyItsKeysButForTheEmptyKey ==
    (/\ call.op = "tool:update_properties"
     /\ variant = "server" => "" \notin MapKeys(call))
        => OnlyNamedWritten

\* update_properties of kg/tools, given a map with two keys, has changed one
\* property and created another
C33_WitnessKg ==
    /\ variant = "kg"
    /\ call.op = "tool:update_properties" /\ call.result = "ok"
    /\ Len(call.properties) = 2
    /\ \E p \in before.properties, q \in tables.properties :
          q.id = p.id /\ q.value # p.value /\ Named(call, q)
    /\ \E q \in tables.properties : ~\E p \in before.properties : p.id = q.id

-----------------------------------------------------------------------------
(* delete_properties of kg/tools/property.py.                              *)

\* keys is None: the argument is left out
NoKeys == <<NoneStr>>

\* the lists of keys given to delete_properties
GKeyLists == {NoKeys, <<>>, <<"age">>, <<"city">>, <<"age", "city">>}

\* the WHERE clause of delete_properties, lines 131-146: "if keys:" adds
\* the condition on the key for a list that is not empty
DeleteWhere(p, entity_id, relationship_id, keys) ==
    /\ entity_id # Null => p.entity_id = entity_id
    /\ relationship_id # Null => p.relationship_id = relationship_id
    /\ (keys # NoKeys /\ keys # <<>>)
          => \E i \in 1..Len(keys) : p.key = keys[i]

\* delete_properties, lines 122-166: SELECT id, key, value of the rows, then
\* DELETE them
KDeleteProperties(g, entity_id, relationship_id, keys) ==
    IF entity_id = Null /\ relationship_id = Null
    THEN Fail(g, "ValueError",
              "Must provide either entity_id or relationship_id")
    ELSE LET hit == {p \in g.tables.properties :
                        DeleteWhere(p, entity_id, relationship_id, keys)}
             d == Deleted(g, [g.tables EXCEPT !.properties = @ \ hit])
         IN  IF d.exc # "" THEN Fail(d.g, "ValueError", d.exc)
             ELSE Ok(d.g, {[id |-> p.id, key |-> p.key, value |-> p.value] :
                              p \in hit}, TRUE)

\* tool delete_properties(entity_id, relationship_id, keys) of kg/tools
GKgDeleteProperties ==
    /\ variant = "kg"
    /\ \E entity_id \in GIds \cup {Null},
          relationship_id \in (1..MaxRelationships) \cup {Null},
          keys \in GKeyLists :
          Called(KDeleteProperties(Graph, entity_id, relationship_id, keys),
                 [NoGraphCall EXCEPT !.op = "tool:delete_properties",
                                     !.entity_id = entity_id,
                                     !.relationship_id = relationship_id,
                                     !.keys = keys])

\* an empty database behind the tools of kg/tools
InitBatch ==
    /\ ExecAtRest
    /\ ClassifierAtRest
    /\ script = <<>>
    /\ connRun = NoRun
    /\ connection_config = TestConfig
    /\ variant = "kg"
    /\ tables = NoTables
    /\ nextId = [entities |-> 1, relationships |-> 1, properties |-> 1]
    /\ clock = MaxClock + 1
    /\ on_delete = "restrict"
    /\ call = NoGraphCall
    /\ before = NoTables
    /\ loop = NoLoop

NextBatch ==
    \/ GKgAddEntity
    \/ GKgAddRelationship
    \/ GKgDeleteProperties

SpecBatch == InitBatch /\ [][NextBatch]_vars

\* delete_properties returned for one owner
BatchDeleted ==
    /\ call.op = "tool:delete_properties"
    /\ call.result = "ok"
    /\ (call.entity_id = Null) # (call.relationship_id = Null)

\* the properties that the owner of the last call had before it
OfOwner ==
    {p \in before.properties :
        IF call.entity_id # Null THEN p.entity_id = call.entity_id
        ELSE p.relationship_id = call.relationship_id}

\* the last call deleted the properties gone, returned them with the id,
\* key and value they had, and left every other property as it was
DeletedExactly(gone) ==
    /\ tables.properties = before.properties \ gone
    /\ tables.entities = before.entities
    /\ tables.relationships = before.relationships
    /\ call.rows = {[id |-> p.id, key |-> p.key, value |-> p.value] :
                       p \in gone}

\* C34: delete_properties(owner, keys) deletes exactly the properties of the
\* owner whose key is in keys, returns exactly those rows with the id, key
\* and value they had, and leaves every other property as it was; all the
\* properties of the owner are deleted only when keys is left out.
C34_DeletePropertiesDeletesItsKeys ==
    BatchDeleted =>
        DeletedExactly(IF call.keys = NoKeys THEN OfOwner
                       ELSE {p \in OfOwner :
                               \E i \in 1..Len(call.keys) :
                                  p.key = call.keys[i]})

\* delete_properties(entity_id, keys=[]) has deleted the two properties of
\* the entity
C34_Witness ==
    /\ BatchDeleted
    /\ call.keys = <<>>
    /\ Cardinality(OfOwner) = 2
    /\ tables.properties = {}
    /\ Cardinality(call.rows) = 2

\* What holds: a list of keys that is not empty deletes the properties of
\* the owner with those keys, and keys left out or empty deletes all the
\* properties of the owner; the rows deleted are the rows returned.
C34_EmptyListDeletesAll ==
    BatchDeleted =>
        DeletedExactly(IF call.keys \in {NoKeys, <<>>} THEN OfOwner
                       ELSE {p \in OfOwner :
                               \E i \in 1..Len(call.keys) :
                                  p.key = call.keys[i]})

\* delete_properties(entity_id, keys=["age"]) has deleted one of the two
\* properties of the entity and returned it
C34_WitnessKept ==
    /\ BatchDeleted
    /\ call.keys = <<"age">>
    /\ Cardinality(OfOwner) = 2
    /\ Cardinality(tables.properties) = 1
    /\ \E p \in tables.properties : p.key = "city"
    /\ \E r \in call.rows : r.key = "age"

-----------------------------------------------------------------------------
(* The existence check of add_relationship of kg/tools/relationship.py.    *)

\* add_relationship of kg/tools was called and its check refused the ids
CheckRefused ==
    /\ variant = "kg"
    /\ call.op = "tool:add_relationship"
    /\ call.message = "Both source and target entities must exist"

\* every id that the last call names is the id of an entity
AllExist ==
    /\ \E e \in before.entities : e.id = call.source_id
    /\ \E e \in before.entities : e.id = call.target_id

\* C35: the existence check of add_relationship of kg/tools passes whenever
\* every id named is the id of an entity, a relationship of an entity with
\* itself included, and refuses only when an id named is of no entity.
C35_CheckPassesForExistingEntities ==
    (variant = "kg" /\ call.op = "tool:add_relationship")
        => (CheckRefused <=> ~AllExist)

\* add_relationship(1, 1, ...) of kg/tools was refused although entity 1
\* exists, and nothing was inserted
C35_Witness ==
    /\ CheckRefused
    /\ call.source_id = 1 /\ call.target_id = 1
    /\ AllExist
    /\ call.result = "ValueError"
    /\ tables = before

\* What holds: for two different ids the check passes exactly when both are
\* ids of entities, and for one id given twice it never passes.
C35_CheckCountsTheRows ==
    (variant = "kg" /\ call.op = "tool:add_relationship")
        => (CheckRefused <=>
               (~AllExist \/ call.source_id = call.target_id))

\* add_relationship(1, 2, ...) of kg/tools passed the check and returned
\* the relationship
C35_WitnessPassed ==
    /\ variant = "kg" /\ call.op = "tool:add_relationship"
    /\ call.source_id = 1 /\ call.target_id = 2
    /\ AllExist
    /\ call.result = "ok"
    /\ \E r \in call.rows : r.source_id = 1 /\ r.target_id = 2

-----------------------------------------------------------------------------
(* How a call of the executor of kg/db.py ends its transaction.            *)

\* the last call was an execute_query of kg/db.py whose statement was sent
KgSent == last.op = "kg_execute_query" /\ last.sent = 1

\* the exceptions that cursor.execute raises for a statement it has sent
SentErrors ==
    {"OperationalError", "ProgrammingError", "IntegrityError",
     "InFailedSqlTransaction"}

\* C36: an execute_query of kg/db.py that reaches the backend ends with one
\* commit and no rollback when the statement succeeds, a read included, and
\* with one rollback and no commit when it raises, the exception of the
\* statement being raised again as it was; no transaction is open after it.
C36_OneCommitOrOneRollback ==
    KgSent =>
        /\ txn = "IDLE"
        /\ last.result = "ok" => last.commits = 1 /\ last.rollbacks = 0
        /\ last.result # "ok" =>
              /\ last.commits = 0 /\ last.rollbacks = 1
              /\ last.result \in SentErrors
              /\ last.fault = "lost" => last.result = "OperationalError"

\* the connection was lost while the statement ran: no rollback was made
\* and the call raised InterfaceError, not the OperationalError of the
\* statement
C36_Witness ==
    /\ KgSent
    /\ last.fault = "lost"
    /\ last.result = "InterfaceError"
    /\ last.rollbacks = 0 /\ last.commits = 0
    /\ closed # 0

\* What holds: on a connection that stays open the call ends with one
\* commit, or with one rollback and the exception of the statement; when
\* the connection is lost it ends with neither and raises InterfaceError;
\* no transaction is open after it and the committed tables are the tables
\* that the session sees.
C36_OneCommitOrOneRollbackUnlessLost ==
    KgSent =>
        /\ txn = "IDLE"
        /\ working = committed
        /\ last.commits + last.rollbacks <= 1
        /\ last.result = "ok" => last.commits = 1
        /\ (last.result # "ok" /\ last.fault = "none") =>
              last.rollbacks = 1 /\ last.result \in SentErrors
        /\ last.fault = "lost" =>
              /\ last.commits = 0 /\ last.rollbacks = 0
              /\ last.result = "InterfaceError"

\* a SELECT was committed, and a statement that the backend refused was
\* rolled back with its own exception
C36_WitnessRolledBack ==
    /\ KgSent
    /\ last.stmt = "INVALID"
    /\ last.result = "ProgrammingError"
    /\ last.rollbacks = 1
    /\ committed.entities # {}

-----------------------------------------------------------------------------
(* The repository methods of postgres.py on an instance of its own, and    *)
(* the state its execute_query leaves the session in.                      *)

\* the faults a statement of postgres.py can meet once it is sent: the
\* connection is lost, or the statement outlasts statement_timeout
PFaultsFor(stmt, outs) ==
    FaultsFor(stmt, FALSE, outs)
        \cup (IF "lost" \in FaultsFor(stmt, FALSE, outs)
              THEN {"timeout"} ELSE {})

\* try: self.execute_query(query, params) ... except Exception: RuntimeError
\* (postgres.py lines 207-221 and 254-270)
PRepoCall(op, stmt, message, table) ==
    \E outs \in ScriptsFor(Here) :
      \E fault \in PFaultsFor(stmt, outs) :
        /\ WithinBounds(stmt)
        /\ \E r \in {PExec(Here, stmt, outs, fault)} :
               /\ Install(r.st)
               /\ last' = [CallRecord(op, stmt, FALSE, fault,
                                       Wrapped(r, message))
                               EXCEPT !.raised = IF r.result = "ok" THEN "none"
                                                 ELSE r.result]
               /\ acked' = IF r.result = "ok" /\ table # ""
                           THEN [acked EXCEPT ![table] = @ \cup r.rows]
                           ELSE acked
               /\ failStreak' = StreakAfter(r)

\* PostgresDB.add_entity(type, name) of postgres.py
PAddEntity ==
    /\ variant = "postgres"
    /\ UNCHANGED <<classVars, connVars, graphVars, loop>>
    /\ \E t \in Types \cup {""}, n \in Names \cup {""} :
          IF IsBlank(t)
          THEN Refuse("pg_add_entity", "Entity type cannot be empty")
          ELSE IF IsBlank(n)
          THEN Refuse("pg_add_entity", "Entity name cannot be empty")
          ELSE PRepoCall("pg_add_entity",
                         [Stmt("ADD_ENTITY") EXCEPT !.type = t, !.name = n],
                         "Failed to add entity", "entities")

\* PostgresDB.get_entity(entity_id) of postgres.py
PGetEntity ==
    /\ variant = "postgres"
    /\ UNCHANGED <<classVars, connVars, graphVars, loop>>
    /\ \E i \in Ids :
          PRepoCall("pg_get_entity", [Stmt("GET_ENTITY") EXCEPT !.id = i],
                    "Failed to get entity", "")

\* db.execute_query(query, params) of postgres.py with a statement that may
\* outlast its timeout
PExecuteQueryTimed ==
    /\ variant = "postgres"
    /\ \E stmt \in RawStatements, outs \in ScriptsFor(Here) :
         \E fault \in PFaultsFor(stmt, outs) :
           /\ WithinBounds(stmt)
           /\ \E r \in {PExec(Here, stmt, outs, fault)} :
                  /\ Install(r.st)
                  /\ last' = CallRecord("pg_execute_query", stmt, FALSE,
                                        fault, r)
                  /\ acked' = AckedAfter(stmt, r)
                  /\ failStreak' = StreakAfter(r)
    /\ UNCHANGED <<classVars, connVars, graphVars, loop>>

InitPostgres ==
    /\ ExecAtRest
    /\ GraphAtRest
    /\ ClassifierAtRest
    /\ script = <<>>
    /\ connRun = NoRun
    /\ connection_config = TestConfig
    /\ variant = "postgres"

NextPostgres ==
    \/ PExecuteQueryTimed
    \/ PAddEntity
    \/ PGetEntity
    \/ CloseConnection

SpecPostgres == InitPostgres /\ [][NextPostgres]_vars

PostgresCalls == {"pg_execute_query", "pg_add_entity", "pg_get_entity"}

\* what execute_query raised in the call recorded in l
PRaisedOf(l) == IF l.op = "pg_execute_query" THEN l.result ELSE l.raised

\* the call recorded in l sent its statement, and execute_query raised the
\* query error or TimeoutError for it
PStatementFailed(l) ==
    /\ l.op \in PostgresCalls
    /\ l.sent = 1
    /\ PRaisedOf(l) \in {"ValueError", "TimeoutError"}

\* the call recorded in l is one that a healthy session serves
PValidCall(l) ==
    /\ l.op \in PostgresCalls
    /\ l.stmt \in {"SELECT_ONE", "GET_ENTITY", "ADD_ENTITY", "INSERT_RAW"}
    /\ l.fault = "none"

\* C37: after an execute_query of postgres.py that failed with a query error
\* or with a statement timeout, the connection is open and not in an aborted
\* transaction: the next valid call succeeds and the entities that were
\* retrievable before it still are.
C37_FailedStatementLeavesTheSessionUsable ==
    [][/\ PStatementFailed(last') =>
             /\ connection' = "conn" /\ closed' = 0
             /\ txn' # "INERROR"
       /\ (PStatementFailed(last) /\ PValidCall(last')) =>
             /\ last'.result = "ok"
             /\ (acked.entities \cap working.entities)
                    \subseteq working'.entities]_vars

\* an entity was added, a statement then failed with a query error or a
\* timeout, and the add_entity after it failed without being sent, in the
\* transaction that the failure left aborted
C37_Witness ==
    /\ last.op = "pg_add_entity"
    /\ last.result = "RuntimeError" /\ last.sent = 0
    /\ last.streakBefore >= 1
    /\ ~last.wasClosed
    /\ connection = "conn" /\ closed = 0
    /\ txn = "INERROR"
    /\ acked.entities # {}

\* What holds of postgres.py: a statement that failed with a query error or
\* a timeout leaves the connection open and its transaction aborted, no
\* handler rolling back; every call after it but the empty query fails with
\* RuntimeError before its statement is sent, and changes nothing, until the
\* connection is closed.
C37_FailedStatementLeavesTheTransactionAborted ==
    [][/\ PStatementFailed(last') =>
             /\ connection' = "conn" /\ closed' = 0
             /\ txn' = "INERROR"
       /\ (PStatementFailed(last) /\ last'.op \in PostgresCalls
              /\ last'.stmt \notin {"EMPTY", "BLANK", "none"}) =>
             /\ last'.result = "RuntimeError"
             /\ last'.sent = 0
             /\ txn' = "INERROR"
             /\ working' = working /\ committed' = committed]_vars

\* a SELECT 1 after a statement that timed out failed with RuntimeError
C37_WitnessTimedOut ==
    /\ last.op = "pg_execute_query"
    /\ last.stmt = "SELECT_ONE"
    /\ last.result = "RuntimeError" /\ last.sent = 0
    /\ txn = "INERROR" /\ closed = 0

-----------------------------------------------------------------------------
(* Whether the rows that postgres.py returns are committed.                *)

\* C38: in postgres.py a write is committed by the time its call returns: an
\* entity returned by a successful add_entity, unless a later statement
\* deleted it, is in the committed tables, and so outlasts a later failed
\* statement and the close and re-opening of the connection.
C38_ReturnedRowsAreCommitted ==
    variant = "postgres" => acked.entities \subseteq committed.entities

\* an entity that add_entity returned is gone: the connection was closed,
\* the next call opened it again, and get_entity found no row
C38_Witness ==
    /\ variant = "postgres"
    /\ last.op = "pg_get_entity"
    /\ last.wasClosed /\ last.connected
    /\ last.result = "ok" /\ last.rows = {}
    /\ \E e \in acked.entities :
          /\ e \notin working.entities
          /\ e \notin committed.entities
          /\ seqs.entities = e.id + 1

\* What holds of postgres.py: a statement whose cursor has no description is
\* committed before the call returns None; a call that returns rows makes
\* no commit, so the row that add_entity returns is in the open transaction
\* of the session and in no committed table.
C38_OnlyStatementsWithoutRowsAreCommitted ==
    /\ (last.op = "pg_execute_query" /\ last.result = "ok"
           /\ last.returned = "None") =>
          /\ last.commits = 1
          /\ working = committed
          /\ txn = "IDLE"
    /\ (last.op = "pg_add_entity" /\ last.result = "ok") =>
          /\ last.commits = 0
          /\ txn = "INTRANS"
          /\ last.rows \subseteq working.entities
          /\ last.rows \cap committed.entities = {}

\* a raw INSERT was committed, and with it an entity that an earlier
\* add_entity had returned
C38_WitnessCommitted ==
    /\ last.op = "pg_execute_query"
    /\ last.stmt = "INSERT_RAW"
    /\ last.result = "ok" /\ last.commits = 1
    /\ acked.entities # {}
    /\ acked.entities \subseteq committed.entities

====
